---- MODULE Spec2Model ----
(***************************************************************************)
(* Model of the futex core (src/src/syscall/futex.c) and of the socket     *)
(* event reactor and blocking discipline (src/src/fs/socket.c) of the      *)
(* Foreign Linux syscall personality layer.                                *)
(*                                                                         *)
(* Threads are preemptively scheduled: every access to shared state is a   *)
(* step of its own, except that the body of a bucket critical section      *)
(* (between lock_bucket and unlock_bucket) is one step.                    *)
(***************************************************************************)
EXTENDS Integers, Sequences, FiniteSets, TLC

(* ------------------------------ bounds -------------------------------- *)
NumThreads == 3
MaxCalls == 3
MaxSockCalls == 2
\* messages in a sendmmsg vector
MaxVlen == 2
\* socket files a forked child inherits
MaxForkFiles == 3

Threads == 1..NumThreads

(* ----------------------- program constants ---------------------------- *)
FUTEX_HASH_BUCKETS == 256
L_EINTR == 4
L_EAGAIN == 11
L_ETIMEDOUT == 110
L_EIO == 5
L_EWOULDBLOCK == 11
L_EINVAL == 22
L_ECONNRESET == 104
L_ECONNREFUSED == 111
L_EINPROGRESS == 115
WSAEINTR == 10004
WSAEINVAL == 10022
WSAEWOULDBLOCK == 10035
WSAECONNRESET == 10054
WSAECONNREFUSED == 10061
LINUX_POLLIN == 1
LINUX_POLLOUT == 4
LINUX_POLLHUP == 16

NULL == 0
\* Three user addresses: the first two are congruent modulo 256 (one bucket),
\* the third lies in a higher bucket.
Addrs == {4, 4 + FUTEX_HASH_BUCKETS, 8}
\* values of a futex word
Vals == {0, 1}
\* the expected value passed to WAIT and CMP_REQUEUE (the word itself takes
\* both values, so both outcomes of the comparison occur)
Expected == {0}
\* timeouts of WAIT: TRUE is a finite timeout. The behaviours of an INFINITE
\* wait are those of a finite wait that never expires.
Timeouts == {TRUE}
\* count arguments (an int: negative values are legal inputs)
Counts == {-1, 0, 1}
\* the futex words the guest program stores to (the sources of the requeues)
StoreAddrs == {4, 8}
\* (uaddr, uaddr2) of the requeues: same address, same bucket, and the two
\* directions between two buckets
RequeuePairs == {<<4, 4>>, <<4, 4 + FUTEX_HASH_BUCKETS>>, <<4, 8>>, <<8, 4>>}

(* ------------------------------ state --------------------------------- *)
VARIABLES
    mem,         \* mem[a]: the int stored at user address a
    spin_lock,   \* spin_lock[b]: futex->hash[b].spin_lock
    wait_list,   \* wait_list[b]: futex->hash[b].wait_list, head first; a wait
                 \* block is named by the thread on whose stack it lives
    blk_addr,    \* blk_addr[t]: wait_block.addr of thread t's block
    wait_event,  \* wait_event[t]: thread t's auto-reset wake event is signalled
    pc,          \* pc[t]: position of thread t
    op,          \* op[t]: the futex operation of t's current (or last) call
    addr,        \* addr[t]: uaddr argument
    val,         \* val[t]: val argument (expected value, or count)
    addr2,       \* addr2[t]: uaddr2 argument (requeue_addr), NULL for WAKE
    val3,        \* val3[t]: val3 argument (*requeue_val)
    finite,      \* finite[t]: the timeout of the WAIT is not INFINITE
    result,      \* result[t]: what signal_wait returned
    num_woken,   \* num_woken[t]: local of futex_wake_requeue
    ret,         \* ret[t]: return value of t's last call
    ncalls,      \* number of calls started by the unscripted threads
    woken,       \* ghost: threads whose block a waker removed and signalled
                 \* during their current (or last) WAIT
    mode,        \* mode[t]: what thread t does: "waiter" (WAIT calls), "waker"
                 \* (WAKE, REQUEUE, CMP_REQUEUE calls), "mover" and "requeuer"
                 \* (REQUEUE, CMP_REQUEUE calls), "any", or a scripted role
    avoid        \* the address reserved for the scripted threads (NULL: none)

futexvars == <<mem, spin_lock, wait_list, blk_addr, wait_event, pc, op, addr, val,
               addr2, val3, finite, result, num_woken, ret, ncalls, woken, mode, avoid>>

(* --------------------------- socket state ----------------------------- *)
\* One socket file, shared by the threads of the process.
VARIABLES
    nonblock,      \* f->base_file.flags & O_NONBLOCK
    mutex,         \* owner of f->mutex (NULL: free)
    events,        \* f->shared->events
    connect_error, \* f->shared->connect_error
    event_handle,  \* f->event_handle (a manual-reset event) is signalled
    net_pending,   \* the host's record of network events not yet enumerated
    net_error,     \* the host's iErrorCode[FD_CONNECT_BIT] of that record
    host_ready,    \* the operations the host would complete without blocking
    connecting,    \* a connect is in progress in the host
    spc,           \* spc[t]: position of thread t in its socket call
    sop,           \* sop[t]: the socket operation of t's current call
    sflags,        \* sflags[t]: the flags argument of that call
    sev,           \* sev[t]: events.lNetworkEvents of socket_update_events_unsafe
    sr,            \* sr[t]: the local r (len in socket_sendmmsg) of the call
    mm_i,          \* mm_i[t]: the index i of socket_sendmmsg
    wsa_error,     \* wsa_error[t]: the thread's last socket error
    sret,          \* sret[t]: return value of t's last socket call
    interrupted,   \* ghost: signal_wait reported WAIT_INTERRUPTED in t's call
    wouldblock,    \* ghost: socket_wait_event returned -L_EWOULDBLOCK in t's call
    scalls         \* number of socket calls started

sockvars == <<nonblock, mutex, events, connect_error, event_handle, net_pending,
              net_error, host_ready, connecting, spc, sop, sflags, sev, sr, mm_i,
              wsa_error, sret, interrupted, wouldblock, scalls>>

\* ---- socket files and the descriptor table; one sendmmsg vector ----
VARIABLES
    lfile,      \* the socket file made by socket_open: a set of at most one record
    cfile,      \* the socket file made by a successful accept4 on it
    msgvec,     \* a sendmmsg vector: for each message the sum of its iov_len and
                \* the value socket_sendmsg_unsafe returns for it
    mm_out,     \* what socket_sendmmsg returned and the msg_len it has set
    sc_call,    \* one call of a function of the syscall layer: its name and arguments
    sc_out      \* what that call returned and did: a set of at most one record

filevars == <<lfile, cfile, msgvec, mm_out, sc_call, sc_out>>

vars == <<futexvars, sockvars, filevars>>

(* ----------------------------- helpers -------------------------------- *)
\* futex_hash
futex_hash(a) == a % FUTEX_HASH_BUCKETS

Buckets == {futex_hash(a) : a \in Addrs}

\* lib/list.h list_add: append at the tail
list_add(list, node) == Append(list, node)

\* lib/list.h list_remove of a node that is linked in list
list_remove(list, node) == SelectSeq(list, LAMBDA x : x # node)

InList(list, node) == \E i \in 1..Len(list) : list[i] = node

Linked(t) == \E b \in Buckets : InList(wait_list[b], t)

(* ------------------------ futex_wake_requeue loop --------------------- *)
\* futex.c:165  if (requeue_addr == NULL && num_woken == count) break;
WakeLimitReached(requeue_addr, nw, count) == requeue_addr = NULL /\ nw = count

\* mutant: the loop does not compare the block's address
BlockMatches_any(baddr, a) == TRUE

\* futex.c:175  if (wait_block->addr == addr)
BlockMatches(baddr, a) == baddr = a

\* futex.c:177  if (num_woken == count && requeue_addr)
ShouldRequeue(nw, count, requeue_addr) == nw = count /\ requeue_addr # NULL

\* mutant: a requeued block is unlinked and never added to the destination
RequeueBlock_drop(st, cur, ra, same) ==
    [st EXCEPT !.ba[cur] = ra, !.src = list_remove(@, cur)]

\* mutant: a requeued block gets its new address and stays in the source list
RequeueBlock_inplace(st, cur, ra, same) ==
    [st EXCEPT !.ba[cur] = ra]

\* futex.c:179-190: rewrite the block's address; move it to the destination
\* bucket unless both addresses hash to the same bucket (then prev = cur).
RequeueBlock(st, cur, ra, same) ==
    IF same
    THEN [st EXCEPT !.ba[cur] = ra]
    ELSE [st EXCEPT !.ba[cur] = ra,
                    !.src = list_remove(@, cur),
                    !.dst = list_add(@, cur)]

\* futex.c:194-197: remove the block, NtSetEvent its thread, num_woken++
WakeBlock(st, cur) ==
    [st EXCEPT !.src = list_remove(@, cur),
               !.ev[cur] = TRUE,
               !.wk = @ \cup {cur},
               !.nw = @ + 1]

\* futex.c:161-202: the for (;;) loop. st.src is the source bucket's list, i the
\* position of cur (the node after prev); a node that is removed leaves prev,
\* and so i, where it was.
RECURSIVE WalkFrom(_, _, _, _, _, _)
WalkFrom(st, i, a, count, ra, same) ==
    IF WakeLimitReached(ra, st.nw, count) THEN st
    ELSE IF i > Len(st.src) THEN st
    ELSE LET cur == st.src[i] IN
         IF BlockMatches(st.ba[cur], a)
         THEN IF ShouldRequeue(st.nw, count, ra)
              THEN WalkFrom(RequeueBlock(st, cur, ra, same),
                            IF same THEN i + 1 ELSE i, a, count, ra, same)
              ELSE WalkFrom(WakeBlock(st, cur), i, a, count, ra, same)
         ELSE WalkFrom(st, i + 1, a, count, ra, same)

\* mutant: the source bucket is always locked first
lock_buckets_unordered(bucket1, bucket2) == <<bucket1, bucket2>>

\* futex.c:70-82 lock_buckets: the order in which two distinct buckets are locked
lock_buckets(bucket1, bucket2) ==
    IF bucket1 < bucket2 THEN <<bucket1, bucket2>> ELSE <<bucket2, bucket1>>

\* futex.c:140-149: a requeue over two different buckets takes two locks
TwoBuckets(t) == addr2[t] # NULL /\ futex_hash(addr[t]) # futex_hash(addr2[t])

\* mutant: CMP_REQUEUE does not compare the value
CmpMismatch_never(t) == FALSE

\* futex.c:150-152  if (requeue_addr && requeue_val) if (*addr != *requeue_val)
CmpMismatch(t) ==
    /\ addr2[t] # NULL
    /\ op[t] = "CMP_REQUEUE"
    /\ mem[addr[t]] # val3[t]

\* mutant: WAIT does not compare the value before it queues itself
WaitMismatch_never(t) == FALSE

\* futex.c:95  if (*addr != val)
WaitMismatch(t) == mem[addr[t]] # val[t]

(* ------------------------------ Init ---------------------------------- *)
InitCommon ==
    /\ mem = [a \in Addrs |-> 0]
    /\ spin_lock = [b \in Buckets |-> 0]
    /\ wait_list = [b \in Buckets |-> <<>>]
    /\ blk_addr = [t \in Threads |-> NULL]
    /\ wait_event = [t \in Threads |-> FALSE]
    /\ pc = [t \in Threads |-> "idle"]
    /\ op = [t \in Threads |-> "NONE"]
    /\ addr = [t \in Threads |-> NULL]
    /\ val = [t \in Threads |-> 0]
    /\ addr2 = [t \in Threads |-> NULL]
    /\ val3 = [t \in Threads |-> 0]
    /\ finite = [t \in Threads |-> FALSE]
    /\ result = [t \in Threads |-> "NONE"]
    /\ num_woken = [t \in Threads |-> 0]
    /\ ret = [t \in Threads |-> 0]
    /\ ncalls = 0
    /\ woken = {}

\* socket.c:630-645 socket_open: the socket file after construction; no thread
\* is in a socket call
SockInitCommon ==
    /\ mutex = NULL
    /\ events = {}
    /\ connect_error = 0
    /\ event_handle = FALSE
    /\ net_pending = {}
    /\ net_error = 0
    /\ host_ready = {}
    /\ connecting = FALSE
    /\ spc = [t \in Threads |-> "idle"]
    /\ sop = [t \in Threads |-> "NONE"]
    /\ sflags = [t \in Threads |-> {}]
    /\ sev = [t \in Threads |-> {}]
    /\ sr = [t \in Threads |-> 0]
    /\ mm_i = [t \in Threads |-> 0]
    /\ wsa_error = [t \in Threads |-> 0]
    /\ sret = [t \in Threads |-> 0]
    /\ interrupted = [t \in Threads |-> FALSE]
    /\ wouldblock = [t \in Threads |-> FALSE]
    /\ scalls = 0

\* no socket file is looked at and no vector is sent
NoCall == [fn |-> "none"]

FileInitCommon ==
    /\ lfile = {}
    /\ cfile = {}
    /\ msgvec = <<>>
    /\ mm_out = {}
    /\ sc_call = NoCall
    /\ sc_out = {}

Init ==
    /\ InitCommon
    /\ SockInitCommon
    /\ FileInitCommon
    /\ nonblock = FALSE
    /\ mode = [t \in Threads |-> IF t = NumThreads THEN "waker" ELSE "waiter"]
    /\ avoid = NULL

(* --------------------------- call entry ------------------------------- *)
\* sys_futex FUTEX_WAIT -> futex_wait(uaddr, val, time)
BeginWait(t, a, v, f) ==
    /\ pc[t] = "idle"
    /\ ~Linked(t)
    /\ pc' = [pc EXCEPT ![t] = "w_lock"]
    /\ op' = [op EXCEPT ![t] = "WAIT"]
    /\ addr' = [addr EXCEPT ![t] = a]
    /\ val' = [val EXCEPT ![t] = v]
    /\ finite' = [finite EXCEPT ![t] = f]
    /\ UNCHANGED <<mem, spin_lock, wait_list, blk_addr, wait_event, addr2, val3,
                   result, num_woken, ret, woken, avoid, sockvars, filevars>>

\* sys_futex FUTEX_WAKE / FUTEX_REQUEUE / FUTEX_CMP_REQUEUE -> futex_wake_requeue
BeginWakeRequeue(t, o, a, n, a2, v3) ==
    /\ pc[t] = "idle"
    /\ pc' = [pc EXCEPT ![t] = "q_lock1"]
    /\ op' = [op EXCEPT ![t] = o]
    /\ addr' = [addr EXCEPT ![t] = a]
    /\ val' = [val EXCEPT ![t] = n]
    /\ addr2' = [addr2 EXCEPT ![t] = a2]
    /\ val3' = [val3 EXCEPT ![t] = v3]
    /\ num_woken' = [num_woken EXCEPT ![t] = 0]
    /\ UNCHANGED <<mem, spin_lock, wait_list, blk_addr, wait_event, finite, result,
                   ret, woken, avoid, sockvars, filevars>>

\* an unscripted call: it is counted against the call budget
Waiter(t) ==
    /\ mode[t] \in {"waiter", "any"}
    /\ ncalls < MaxCalls
    /\ ncalls' = ncalls + 1
    /\ UNCHANGED mode

Waker(t) ==
    /\ mode[t] \in {"waker", "any"}
    /\ ncalls < MaxCalls
    /\ ncalls' = ncalls + 1
    /\ UNCHANGED mode

Requeuer(t) ==
    /\ mode[t] \in {"waker", "any", "requeuer", "mover"}
    /\ ncalls < MaxCalls
    /\ ncalls' = ncalls + 1
    /\ UNCHANGED mode

\* the counts thread t passes: a "mover" requeues every waiter, a "requeuer"
\* wakes one waiter and requeues the others
CountsOf(t) ==
    IF mode[t] = "mover" THEN {0} ELSE IF mode[t] = "requeuer" THEN {1} ELSE Counts

FreeAddrs == Addrs \ {avoid}

FreeRequeuePairs == {p \in RequeuePairs : p[1] # avoid /\ p[2] # avoid}

StartWait(t) ==
    /\ Waiter(t)
    /\ \E a \in FreeAddrs, v \in Expected, f \in Timeouts : BeginWait(t, a, v, f)

StartWake(t) ==
    /\ Waker(t)
    /\ \E a \in FreeAddrs, n \in Counts : BeginWakeRequeue(t, "WAKE", a, n, NULL, 0)

StartRequeue(t) ==
    /\ Requeuer(t)
    /\ \E p \in FreeRequeuePairs, n \in CountsOf(t) :
          BeginWakeRequeue(t, "REQUEUE", p[1], n, p[2], 0)

StartCmpRequeue(t) ==
    /\ Requeuer(t)
    /\ \E p \in FreeRequeuePairs, n \in CountsOf(t), v3 \in Expected :
          BeginWakeRequeue(t, "CMP_REQUEUE", p[1], n, p[2], v3)

\* a store of the guest program to a futex word
UserStore ==
    /\ \E a \in StoreAddrs \ {avoid}, v \in Vals :
          /\ mem[a] # v
          /\ mem' = [mem EXCEPT ![a] = v]
    /\ UNCHANGED <<spin_lock, wait_list, blk_addr, wait_event, pc, op, addr, val,
                   addr2, val3, finite, result, num_woken, ret, ncalls, woken, mode,
                   avoid, sockvars, filevars>>

(* ---------------------------- futex_wait ------------------------------ *)
\* lock_bucket: InterlockedCompareExchange(&spin_lock, 1, 0) succeeded
lock_bucket(b) == spin_lock[b] = 0 /\ spin_lock' = [spin_lock EXCEPT ![b] = 1]

\* unlock_bucket: spin_lock = 0, whoever holds it
unlock_bucket(b) == spin_lock' = [spin_lock EXCEPT ![b] = 0]

\* the call returns r; its arguments and locals are dead
Return(t, r) ==
    /\ pc' = [pc EXCEPT ![t] = "done"]
    /\ ret' = [ret EXCEPT ![t] = r]
    /\ addr' = [addr EXCEPT ![t] = NULL]
    /\ val' = [val EXCEPT ![t] = 0]
    /\ addr2' = [addr2 EXCEPT ![t] = NULL]
    /\ val3' = [val3 EXCEPT ![t] = 0]
    /\ finite' = [finite EXCEPT ![t] = FALSE]
    /\ num_woken' = [num_woken EXCEPT ![t] = 0]

\* futex.c:94
WaitLock(t) ==
    /\ pc[t] = "w_lock"
    /\ lock_bucket(futex_hash(addr[t]))
    /\ pc' = [pc EXCEPT ![t] = "w_body"]
    /\ UNCHANGED <<mem, wait_list, blk_addr, wait_event, op, addr, val, addr2, val3,
                   finite, result, num_woken, ret, ncalls, woken, mode, avoid, sockvars, filevars>>

\* futex.c:95-104: under the bucket lock, compare *addr and append the wait block
WaitEnqueue(t) ==
    /\ pc[t] = "w_body"
    /\ IF WaitMismatch(t)
       THEN /\ pc' = [pc EXCEPT ![t] = "w_mm_unlock"]
            /\ UNCHANGED <<wait_list, blk_addr>>
       ELSE /\ blk_addr' = [blk_addr EXCEPT ![t] = addr[t]]
            /\ wait_list' = [wait_list EXCEPT ![futex_hash(addr[t])] = list_add(@, t)]
            /\ pc' = [pc EXCEPT ![t] = "w_unlock"]
    /\ UNCHANGED <<mem, spin_lock, wait_event, op, addr, val, addr2, val3, finite,
                   result, num_woken, ret, ncalls, woken, mode, avoid, sockvars, filevars>>

\* the mismatch reported as Linux reports it
WaitMismatchReturn_eagain(t) ==
    /\ pc[t] = "w_mm_unlock"
    /\ unlock_bucket(futex_hash(addr[t]))
    /\ Return(t, -L_EAGAIN)
    /\ UNCHANGED <<mem, wait_list, blk_addr, wait_event, op, result, ncalls, woken,
                   mode, avoid, sockvars, filevars>>

\* futex.c:98-99: the value changed
WaitMismatchReturn(t) ==
    /\ pc[t] = "w_mm_unlock"
    /\ unlock_bucket(futex_hash(addr[t]))
    /\ Return(t, 0)
    /\ UNCHANGED <<mem, wait_list, blk_addr, wait_event, op, result, ncalls, woken,
                   mode, avoid, sockvars, filevars>>

\* futex.c:105
WaitUnlock(t) ==
    /\ pc[t] = "w_unlock"
    /\ unlock_bucket(futex_hash(addr[t]))
    /\ pc' = [pc EXCEPT ![t] = "w_sleep"]
    /\ UNCHANGED <<mem, wait_list, blk_addr, wait_event, op, addr, val, addr2, val3,
                   finite, result, num_woken, ret, ncalls, woken, mode, avoid, sockvars, filevars>>

\* futex.c:106-112: signal_wait returned WAIT_OBJECT_0 (the auto-reset event is
\* consumed); return 0
WaitWoken(t) ==
    /\ pc[t] = "w_sleep"
    /\ wait_event[t]
    /\ wait_event' = [wait_event EXCEPT ![t] = FALSE]
    /\ result' = [result EXCEPT ![t] = "WAIT_OBJECT_0"]
    /\ Return(t, 0)
    /\ UNCHANGED <<mem, spin_lock, wait_list, blk_addr, op, ncalls, woken, mode, avoid, sockvars, filevars>>

\* futex.c:106: signal_wait returned WAIT_TIMEOUT
WaitTimeout(t) ==
    /\ pc[t] = "w_sleep"
    /\ finite[t]
    /\ ~wait_event[t]
    /\ result' = [result EXCEPT ![t] = "WAIT_TIMEOUT"]
    /\ pc' = [pc EXCEPT ![t] = "w_relock"]
    /\ UNCHANGED <<mem, spin_lock, wait_list, blk_addr, wait_event, op, addr, val,
                   addr2, val3, finite, num_woken, ret, ncalls, woken, mode, avoid, sockvars, filevars>>

\* futex.c:106: signal_wait returned WAIT_INTERRUPTED (a signal was delivered)
WaitInterrupted(t) ==
    /\ pc[t] = "w_sleep"
    /\ mode[t] \in {"waiter", "any"}
    /\ ~wait_event[t]
    /\ result' = [result EXCEPT ![t] = "WAIT_INTERRUPTED"]
    /\ pc' = [pc EXCEPT ![t] = "w_relock"]
    /\ UNCHANGED <<mem, spin_lock, wait_list, blk_addr, wait_event, op, addr, val,
                   addr2, val3, finite, num_woken, ret, ncalls, woken, mode, avoid, sockvars, filevars>>

\* futex.c:116
WaitRelock(t) ==
    /\ pc[t] = "w_relock"
    /\ lock_bucket(futex_hash(addr[t]))
    /\ pc' = [pc EXCEPT ![t] = "w_recheck"]
    /\ UNCHANGED <<mem, wait_list, blk_addr, wait_event, op, addr, val, addr2, val3,
                   finite, result, num_woken, ret, ncalls, woken, mode, avoid, sockvars, filevars>>

\* mutant: a waiter whose wait failed leaves its block where it is
RemoveSelf_keep(t, b) == UNCHANGED wait_list

\* futex.c:121 list_remove(&futex->hash[bucket].wait_list, &wait_block.list) with
\* bucket the bucket of the address the call was made with. When the block is
\* linked in that list it is unlinked. When a requeue moved it to another
\* bucket's list, the removal works on a list the node is not in: the node is
\* either unlinked from its neighbours in the other list or stays reachable
\* from the other list's head.
RemoveSelf(t, b) ==
    IF InList(wait_list[b], t)
    THEN wait_list' = [wait_list EXCEPT ![b] = list_remove(@, t)]
    ELSE \/ UNCHANGED wait_list
         \/ /\ Linked(t)
            /\ wait_list' = [c \in Buckets |-> list_remove(wait_list[c], t)]

\* futex.c:120-121: WaitForSingleObject(wait_event, 0) consumes the event when it
\* is signalled; otherwise the thread removes its block
WaitRecheck(t) ==
    /\ pc[t] = "w_recheck"
    /\ IF wait_event[t]
       THEN /\ wait_event' = [wait_event EXCEPT ![t] = FALSE]
            /\ UNCHANGED wait_list
       ELSE /\ RemoveSelf(t, futex_hash(addr[t]))
            /\ UNCHANGED wait_event
    /\ pc' = [pc EXCEPT ![t] = "w_unlock2"]
    /\ UNCHANGED <<mem, spin_lock, blk_addr, op, addr, val, addr2, val3, finite,
                   result, num_woken, ret, ncalls, woken, mode, avoid, sockvars, filevars>>

\* futex.c:123-132: the errno for the result of signal_wait
WaitErrno(res) == IF res = "WAIT_INTERRUPTED" THEN -L_EINTR ELSE -L_ETIMEDOUT

\* futex.c:122-132
WaitFailReturn(t) ==
    /\ pc[t] = "w_unlock2"
    /\ unlock_bucket(futex_hash(addr[t]))
    /\ Return(t, WaitErrno(result[t]))
    /\ UNCHANGED <<mem, wait_list, blk_addr, wait_event, op, result, ncalls, woken,
                   mode, avoid, sockvars, filevars>>

(* ------------------------- futex_wake_requeue ------------------------- *)
\* the bucket locked first and the bucket locked second (futex.c:140-149)
FirstBucket(t) ==
    IF TwoBuckets(t)
    THEN lock_buckets(futex_hash(addr[t]), futex_hash(addr2[t]))[1]
    ELSE futex_hash(addr[t])

SecondBucket(t) == lock_buckets(futex_hash(addr[t]), futex_hash(addr2[t]))[2]

RequeueLock1(t) ==
    /\ pc[t] = "q_lock1"
    /\ lock_bucket(FirstBucket(t))
    /\ pc' = [pc EXCEPT ![t] = IF TwoBuckets(t) THEN "q_lock2" ELSE "q_body"]
    /\ UNCHANGED <<mem, wait_list, blk_addr, wait_event, op, addr, val, addr2, val3,
                   finite, result, num_woken, ret, ncalls, woken, mode, avoid, sockvars, filevars>>

RequeueLock2(t) ==
    /\ pc[t] = "q_lock2"
    /\ lock_bucket(SecondBucket(t))
    /\ pc' = [pc EXCEPT ![t] = "q_body"]
    /\ UNCHANGED <<mem, wait_list, blk_addr, wait_event, op, addr, val, addr2, val3,
                   finite, result, num_woken, ret, ncalls, woken, mode, avoid, sockvars, filevars>>

\* the result of the loop of futex.c:161-202 run by thread t
Walk(t) ==
    LET b  == futex_hash(addr[t])
        b2 == IF addr2[t] # NULL THEN futex_hash(addr2[t]) ELSE b
    IN  WalkFrom([src |-> wait_list[b], dst |-> wait_list[b2], ba |-> blk_addr,
                  ev |-> wait_event, wk |-> {}, nw |-> 0],
                 1, addr[t], val[t], addr2[t], b = b2)

\* futex.c:150-202: under the bucket lock(s), the value check of CMP_REQUEUE and
\* the wake/requeue loop
RequeueBody(t) ==
    /\ pc[t] = "q_body"
    /\ IF CmpMismatch(t)
       THEN /\ pc' = [pc EXCEPT ![t] = "q_mm_unlock1"]
            /\ UNCHANGED <<wait_list, blk_addr, wait_event, num_woken, woken>>
       ELSE LET st == Walk(t)
                b  == futex_hash(addr[t])
            IN  /\ wait_list' = IF TwoBuckets(t)
                                THEN [wait_list EXCEPT ![b] = st.src,
                                                       ![futex_hash(addr2[t])] = st.dst]
                                ELSE [wait_list EXCEPT ![b] = st.src]
                /\ blk_addr' = st.ba
                /\ wait_event' = st.ev
                /\ num_woken' = [num_woken EXCEPT ![t] = st.nw]
                /\ woken' = woken \cup st.wk
                /\ pc' = [pc EXCEPT ![t] = "q_unlock1"]
    /\ UNCHANGED <<mem, spin_lock, op, addr, val, addr2, val3, finite, result, ret,
                   ncalls, mode, avoid, sockvars, filevars>>

\* futex.c:155
RequeueMismatchUnlock1(t) ==
    /\ pc[t] = "q_mm_unlock1"
    /\ unlock_bucket(futex_hash(addr[t]))
    /\ pc' = [pc EXCEPT ![t] = "q_mm_unlock2"]
    /\ UNCHANGED <<mem, wait_list, blk_addr, wait_event, op, addr, val, addr2, val3,
                   finite, result, num_woken, ret, ncalls, woken, mode, avoid, sockvars, filevars>>

\* futex.c:156-157
RequeueMismatchReturn(t) ==
    /\ pc[t] = "q_mm_unlock2"
    /\ unlock_bucket(futex_hash(addr2[t]))
    /\ Return(t, -L_EAGAIN)
    /\ UNCHANGED <<mem, wait_list, blk_addr, wait_event, op, result, ncalls, woken,
                   mode, avoid, sockvars, filevars>>

\* futex.c:203-206 when no second bucket is to be unlocked
RequeueUnlock1(t) ==
    /\ pc[t] = "q_unlock1"
    /\ unlock_bucket(futex_hash(addr[t]))
    /\ IF TwoBuckets(t)
       THEN /\ pc' = [pc EXCEPT ![t] = "q_unlock2"]
            /\ UNCHANGED <<ret, addr, val, addr2, val3, finite, num_woken>>
       ELSE Return(t, num_woken[t])
    /\ UNCHANGED <<mem, wait_list, blk_addr, wait_event, op, result, ncalls, woken,
                   mode, avoid, sockvars, filevars>>

\* futex.c:204-206
RequeueUnlock2(t) ==
    /\ pc[t] = "q_unlock2"
    /\ unlock_bucket(futex_hash(addr2[t]))
    /\ Return(t, num_woken[t])
    /\ UNCHANGED <<mem, wait_list, blk_addr, wait_event, op, result, ncalls, woken,
                   mode, avoid, sockvars, filevars>>

\* the syscall is back in the guest: its return value has been delivered and
\* the stack frame of the call (the wait block, unless still linked) is gone
SyscallExit(t) ==
    /\ pc[t] = "done"
    /\ pc' = [pc EXCEPT ![t] = "idle"]
    /\ op' = [op EXCEPT ![t] = "NONE"]
    /\ ret' = [ret EXCEPT ![t] = 0]
    /\ result' = [result EXCEPT ![t] = "NONE"]
    /\ woken' = woken \ {t}
    /\ blk_addr' = [blk_addr EXCEPT ![t] = IF Linked(t) THEN @ ELSE NULL]
    /\ UNCHANGED <<mem, spin_lock, wait_list, wait_event, addr, val, addr2, val3,
                   finite, num_woken, ncalls, mode, avoid, sockvars, filevars>>

(* -------------------------- specification ----------------------------- *)
Next ==
    \/ UserStore
    \/ \E t \in Threads : StartWait(t)
    \/ \E t \in Threads : StartWake(t)
    \/ \E t \in Threads : StartRequeue(t)
    \/ \E t \in Threads : StartCmpRequeue(t)
    \/ \E t \in Threads : WaitLock(t)
    \/ \E t \in Threads : WaitEnqueue(t)
    \/ \E t \in Threads : WaitMismatchReturn(t)
    \/ \E t \in Threads : WaitUnlock(t)
    \/ \E t \in Threads : WaitWoken(t)
    \/ \E t \in Threads : WaitTimeout(t)
    \/ \E t \in Threads : WaitInterrupted(t)
    \/ \E t \in Threads : WaitRelock(t)
    \/ \E t \in Threads : WaitRecheck(t)
    \/ \E t \in Threads : WaitFailReturn(t)
    \/ \E t \in Threads : RequeueLock1(t)
    \/ \E t \in Threads : RequeueLock2(t)
    \/ \E t \in Threads : RequeueBody(t)
    \/ \E t \in Threads : RequeueMismatchUnlock1(t)
    \/ \E t \in Threads : RequeueMismatchReturn(t)
    \/ \E t \in Threads : RequeueUnlock1(t)
    \/ \E t \in Threads : RequeueUnlock2(t)
    \/ \E t \in Threads : SyscallExit(t)

Spec == Init /\ [][Next]_vars

(* ------------- scenario: one waiter, one store-then-wake -------------- *)
\* Thread A calls WAIT(x, 0, INFINITE) while *x = 0; thread B stores 1 to x and
\* then calls WAKE(x, 1). The remaining threads make any calls on the other
\* addresses (x included in their bucket or not). No signal is sent to A.
InitWake ==
    /\ InitCommon
    /\ SockInitCommon
    /\ FileInitCommon
    /\ nonblock = FALSE
    /\ mode = [t \in Threads |-> IF t = 1 THEN "A0" ELSE IF t = 2 THEN "B0" ELSE "any"]
    /\ avoid \in Addrs

AWait(t) ==
    /\ mode[t] = "A0"
    /\ BeginWait(t, avoid, 0, FALSE)
    /\ mode' = [mode EXCEPT ![t] = "A1"]
    /\ UNCHANGED ncalls

BStore(t) ==
    /\ mode[t] = "B0"
    /\ mem' = [mem EXCEPT ![avoid] = 1]
    /\ mode' = [mode EXCEPT ![t] = "B1"]
    /\ UNCHANGED <<spin_lock, wait_list, blk_addr, wait_event, pc, op, addr, val,
                   addr2, val3, finite, result, num_woken, ret, ncalls, woken, avoid, sockvars, filevars>>

BWake(t) ==
    /\ mode[t] = "B1"
    /\ BeginWakeRequeue(t, "WAKE", avoid, 1, NULL, 0)
    /\ mode' = [mode EXCEPT ![t] = "B2"]
    /\ UNCHANGED ncalls

NextWake ==
    \/ Next
    \/ \E t \in Threads : AWait(t)
    \/ \E t \in Threads : BStore(t)
    \/ \E t \in Threads : BWake(t)

\* the steps a thread takes when it is scheduled: everything but the start of
\* an unscripted call and the delivery of a signal
Progress(t) ==
    \/ WaitLock(t) \/ WaitEnqueue(t) \/ WaitMismatchReturn(t) \/ WaitUnlock(t)
    \/ WaitWoken(t) \/ WaitTimeout(t) \/ WaitRelock(t) \/ WaitRecheck(t)
    \/ WaitFailReturn(t)
    \/ RequeueLock1(t) \/ RequeueLock2(t) \/ RequeueBody(t)
    \/ RequeueMismatchUnlock1(t) \/ RequeueMismatchReturn(t)
    \/ RequeueUnlock1(t) \/ RequeueUnlock2(t)
    \/ SyscallExit(t)
    \/ AWait(t) \/ BStore(t) \/ BWake(t)

Fairness == \A t \in Threads : WF_vars(Progress(t))

WakeSpec == InitWake /\ [][NextWake]_vars /\ Fairness

(* ------------ scenario: one waiter, concurrent requeuers -------------- *)
InitLocks ==
    /\ InitCommon
    /\ SockInitCommon
    /\ FileInitCommon
    /\ nonblock = FALSE
    /\ mode = [t \in Threads |->
                 IF t = 1 THEN "waiter" ELSE IF t = 2 THEN "mover" ELSE "requeuer"]
    /\ avoid = NULL

NextLocks ==
    \/ UserStore
    \/ \E t \in Threads : StartWait(t)
    \/ \E t \in Threads : StartRequeue(t)
    \/ \E t \in Threads : StartCmpRequeue(t)
    \/ \E t \in Threads : WaitLock(t)
    \/ \E t \in Threads : WaitEnqueue(t)
    \/ \E t \in Threads : WaitMismatchReturn(t)
    \/ \E t \in Threads : WaitUnlock(t)
    \/ \E t \in Threads : WaitWoken(t)
    \/ \E t \in Threads : WaitTimeout(t)
    \/ \E t \in Threads : WaitInterrupted(t)
    \/ \E t \in Threads : WaitRelock(t)
    \/ \E t \in Threads : WaitRecheck(t)
    \/ \E t \in Threads : WaitFailReturn(t)
    \/ \E t \in Threads : RequeueLock1(t)
    \/ \E t \in Threads : RequeueLock2(t)
    \/ \E t \in Threads : RequeueBody(t)
    \/ \E t \in Threads : RequeueMismatchUnlock1(t)
    \/ \E t \in Threads : RequeueMismatchReturn(t)
    \/ \E t \in Threads : RequeueUnlock1(t)
    \/ \E t \in Threads : RequeueUnlock2(t)
    \/ \E t \in Threads : SyscallExit(t)

LockSpec == InitLocks /\ [][NextLocks]_vars /\ Fairness

(* ====================================================================== *)
(*                 socket event reactor and blocking calls                *)
(* ====================================================================== *)
\* the network events a socket is selected for (socket.c:542)
FD_ALL == {"FD_READ", "FD_WRITE", "FD_ACCEPT", "FD_CONNECT", "FD_CLOSE"}

\* the calls that take the socket mutex
SockOps == {"sendto", "sendmsg", "sendmmsg", "recvfrom", "recvmsg", "accept4",
            "connect", "read", "write", "bind", "listen", "getsockname",
            "getpeername", "shutdown", "setsockopt", "getsockopt"}
SendOps == {"sendto", "sendmsg", "sendmmsg", "write"}
RecvOps == {"recvfrom", "recvmsg", "read"}
\* socket_recvfrom and socket_read run socket_recvfrom_unsafe
RecvFromOps == {"recvfrom", "read"}
\* the calls that make one host call under the mutex and return its result
SimpleOps == {"bind", "listen", "getsockname", "getpeername", "shutdown",
              "setsockopt", "getsockopt"}
\* the calls that check their arguments before they take the mutex
CheckedOps == {"bind", "connect", "shutdown"}

\* the flags arguments of the calls
MsgFlags == {{}, {"MSG_DONTWAIT"}}
RecvFlags == {{}, {"MSG_DONTWAIT"}, {"MSG_PEEK"}}
FlagsOf(o) ==
    IF o \in {"sendto", "sendmsg", "sendmmsg", "recvmsg"} THEN MsgFlags
    ELSE IF o = "recvfrom" THEN RecvFlags
    ELSE {{}}

\* bytes of one message, and messages of one sendmmsg
MsgLen == 2
Vlen == 2
\* the descriptor vfs_store_file returns for an accepted connection
NewFd == 3

\* further host error codes and Linux errnos of translate_socket_error
WSA_NOT_ENOUGH_MEMORY == 8
L_ENOMEM == 12
WSAEBADF == 10009
L_EBADF == 9
WSAEACCES == 10013
L_EACCES == 13
WSAEFAULT == 10014
L_EFAULT == 14
WSAEMFILE == 10024
L_EMFILE == 24
WSAEALREADY == 10037
L_EALREADY == 114
WSAENOTSOCK == 10038
L_ENOTSOCK == 88
WSAEDESTADDRREQ == 10039
L_EDESTADDRREQ == 89
WSAEMSGSIZE == 10040
L_EMSGSIZE == 90
WSAEPROTOTYPE == 10041
L_EPROTOTYPE == 91
WSAENOPROTOOPT == 10042
L_ENOPROTOOPT == 92
WSAEPROTONOSUPPORT == 10043
L_EPROTONOSUPPORT == 93
WSAESOCKTNOSUPPORT == 10044
WSAEOPNOTSUPP == 10045
L_EOPNOTSUPP == 95
WSAEPFNOSUPPORT == 10046
L_EPFNOSUPPORT == 96
WSAEAFNOSUPPORT == 10047
L_EAFNOSUPPORT == 97
WSAEADDRINUSE == 10048
L_EADDRINUSE == 98
WSAEADDRNOTAVAIL == 10049
L_EADDRNOTAVAIL == 99
WSAENETDOWN == 10050
L_ENETDOWN == 100
WSAENETUNREACH == 10051
L_ENETUNREACH == 101
WSAENETRESET == 10052
L_ENETRESET == 102
WSAECONNABORTED == 10053
L_ECONNABORTED == 103
WSAENOBUFS == 10055
L_ENOBUFS == 105
WSAEISCONN == 10056
L_EISCONN == 106
WSAENOTCONN == 10057
L_ENOTCONN == 107
WSAETIMEDOUT == 10060
WSAELOOP == 10062
L_ELOOP == 40
WSAENAMETOOLONG == 10063
L_ENAMETOOLONG == 36
WSAEHOSTDOWN == 10064
WSAEHOSTUNREACH == 10065
L_EHOSTUNREACH == 113
WSAENOTEMPTY == 10066
L_ENOTEMPTY == 39
WSAECANCELLED == 10103
L_ECANCELED == 125

\* mutant: every host error becomes EIO
translate_socket_error_eio(error) == IF error = 0 THEN 0 ELSE -L_EIO

\* a dead peer reported as unreachable
translate_socket_error_hostdown(error) ==
    CASE error = 0 -> 0
      [] error = WSA_NOT_ENOUGH_MEMORY -> -L_ENOMEM
      [] error = WSAEINTR -> -L_EINTR
      [] error = WSAEBADF -> -L_EBADF
      [] error = WSAEACCES -> -L_EACCES
      [] error = WSAEFAULT -> -L_EFAULT
      [] error = WSAEINVAL -> -L_EINVAL
      [] error = WSAEMFILE -> -L_EMFILE
      [] error = WSAEWOULDBLOCK -> -L_EWOULDBLOCK
      [] error = WSAEALREADY -> -L_EALREADY
      [] error = WSAENOTSOCK -> -L_ENOTSOCK
      [] error = WSAEDESTADDRREQ -> -L_EDESTADDRREQ
      [] error = WSAEMSGSIZE -> -L_EMSGSIZE
      [] error = WSAEPROTOTYPE -> -L_EPROTOTYPE
      [] error = WSAENOPROTOOPT -> -L_ENOPROTOOPT
      [] error = WSAEPROTONOSUPPORT -> -L_EPROTONOSUPPORT
      [] error = WSAESOCKTNOSUPPORT -> -L_EPROTONOSUPPORT
      [] error = WSAEOPNOTSUPP -> -L_EOPNOTSUPP
      [] error = WSAEPFNOSUPPORT -> -L_EPFNOSUPPORT
      [] error = WSAEAFNOSUPPORT -> -L_EAFNOSUPPORT
      [] error = WSAEADDRINUSE -> -L_EADDRINUSE
      [] error = WSAEADDRNOTAVAIL -> -L_EADDRNOTAVAIL
      [] error = WSAENETDOWN -> -L_ENETDOWN
      [] error = WSAENETUNREACH -> -L_ENETUNREACH
      [] error = WSAENETRESET -> -L_ENETRESET
      [] error = WSAECONNABORTED -> -L_ECONNABORTED
      [] error = WSAECONNRESET -> -L_ECONNRESET
      [] error = WSAENOBUFS -> -L_ENOBUFS
      [] error = WSAEISCONN -> -L_EISCONN
      [] error = WSAENOTCONN -> -L_ENOTCONN
      [] error = WSAETIMEDOUT -> -L_ETIMEDOUT
      [] error = WSAECONNREFUSED -> -L_ECONNREFUSED
      [] error = WSAELOOP -> -L_ELOOP
      [] error = WSAENAMETOOLONG -> -L_ENAMETOOLONG
      [] error = WSAEHOSTDOWN -> -L_EHOSTUNREACH
      [] error = WSAEHOSTUNREACH -> -L_EHOSTUNREACH
      [] error = WSAENOTEMPTY -> -L_ENOTEMPTY
      [] error = WSAECANCELLED -> -L_ECANCELED
      [] OTHER -> -L_EIO

\* socket.c:77-123
translate_socket_error(error) ==
    CASE error = 0 -> 0
      [] error = WSA_NOT_ENOUGH_MEMORY -> -L_ENOMEM
      [] error = WSAEINTR -> -L_EINTR
      [] error = WSAEBADF -> -L_EBADF
      [] error = WSAEACCES -> -L_EACCES
      [] error = WSAEFAULT -> -L_EFAULT
      [] error = WSAEINVAL -> -L_EINVAL
      [] error = WSAEMFILE -> -L_EMFILE
      [] error = WSAEWOULDBLOCK -> -L_EWOULDBLOCK
      [] error = WSAEALREADY -> -L_EALREADY
      [] error = WSAENOTSOCK -> -L_ENOTSOCK
      [] error = WSAEDESTADDRREQ -> -L_EDESTADDRREQ
      [] error = WSAEMSGSIZE -> -L_EMSGSIZE
      [] error = WSAEPROTOTYPE -> -L_EPROTOTYPE
      [] error = WSAENOPROTOOPT -> -L_ENOPROTOOPT
      [] error = WSAEPROTONOSUPPORT -> -L_EPROTONOSUPPORT
      [] error = WSAESOCKTNOSUPPORT -> -L_EPROTONOSUPPORT
      [] error = WSAEOPNOTSUPP -> -L_EOPNOTSUPP
      [] error = WSAEPFNOSUPPORT -> -L_EPFNOSUPPORT
      [] error = WSAEAFNOSUPPORT -> -L_EAFNOSUPPORT
      [] error = WSAEADDRINUSE -> -L_EADDRINUSE
      [] error = WSAEADDRNOTAVAIL -> -L_EADDRNOTAVAIL
      [] error = WSAENETDOWN -> -L_ENETDOWN
      [] error = WSAENETUNREACH -> -L_ENETUNREACH
      [] error = WSAENETRESET -> -L_ENETRESET
      [] error = WSAECONNABORTED -> -L_ECONNABORTED
      [] error = WSAECONNRESET -> -L_ECONNRESET
      [] error = WSAENOBUFS -> -L_ENOBUFS
      [] error = WSAEISCONN -> -L_EISCONN
      [] error = WSAENOTCONN -> -L_ENOTCONN
      [] error = WSAETIMEDOUT -> -L_ETIMEDOUT
      [] error = WSAECONNREFUSED -> -L_ECONNREFUSED
      [] error = WSAELOOP -> -L_ELOOP
      [] error = WSAENAMETOOLONG -> -L_ENAMETOOLONG
      [] error = WSAEHOSTDOWN -> -L_ETIMEDOUT
      [] error = WSAEHOSTUNREACH -> -L_EHOSTUNREACH
      [] error = WSAENOTEMPTY -> -L_ENOTEMPTY
      [] error = WSAECANCELLED -> -L_ECANCELED
      [] OTHER -> -L_EIO

\* the event argument each call passes to socket_wait_event
EventOf(o) ==
    CASE o \in SendOps -> {"FD_WRITE"}
      [] o \in RecvOps -> {"FD_READ", "FD_CLOSE"}
      [] o = "accept4" -> {"FD_ACCEPT"}
      [] o = "connect" -> {"FD_CONNECT"}
      [] OTHER -> {}

\* the readiness the host operation of a call consumes
BitOf(o) ==
    CASE o \in SendOps -> "FD_WRITE"
      [] o \in RecvOps -> "FD_READ"
      [] OTHER -> "FD_ACCEPT"

\* the flags argument each call passes to socket_wait_event: socket_accept4
\* and socket_connect pass 0
WaitFlags(t) == IF sop[t] \in {"accept4", "connect"} THEN {} ELSE sflags[t]

\* mutant: FD_CONNECT is surfaced and cleared whether or not it was requested
socket_update_events_unsafe_always(ev, cerr, e, error_report_events) ==
    LET merged == ev \cup e
        report == "FD_CONNECT" \in merged
    IN [events |-> merged \ {"FD_CONNECT"},
        connect_error |-> IF report THEN 0 ELSE cerr,
        report |-> report,
        last_error |-> cerr,
        e |-> ev \cup e]

\* mutant: the drained bits overwrite the accumulated ones
socket_update_events_unsafe_store(ev, cerr, e, error_report_events) ==
    [events |-> e, connect_error |-> cerr, report |-> FALSE, last_error |-> cerr,
     e |-> ev \cup e]

\* socket.c:226-233: _InterlockedOr the drained bits; if FD_CONNECT is requested
\* and set, surface connect_error as the last error and clear FD_CONNECT.
\* Returns original | e.
socket_update_events_unsafe(ev, cerr, e, error_report_events) ==
    LET merged == ev \cup e
        report == "FD_CONNECT" \in error_report_events /\ "FD_CONNECT" \in merged
    IN [events |-> IF report THEN merged \ {"FD_CONNECT"} ELSE merged,
        connect_error |-> IF report THEN 0 ELSE cerr,
        report |-> report,
        last_error |-> cerr,
        e |-> ev \cup e]

\* mutant: only the per-call flag makes a wait non-blocking
NonBlocking_flagonly(t) == "MSG_DONTWAIT" \in WaitFlags(t)

\* socket.c:285  (f->base_file.flags & O_NONBLOCK) || (flags & LINUX_MSG_DONTWAIT)
NonBlocking(t) == nonblock \/ "MSG_DONTWAIT" \in WaitFlags(t)

\* a close reported as a hang-up only
PollStatus_huponly(e) ==
    (IF "FD_READ" \in e THEN LINUX_POLLIN ELSE 0)
    + (IF "FD_CLOSE" \in e THEN LINUX_POLLHUP ELSE 0)
    + (IF "FD_WRITE" \in e THEN LINUX_POLLOUT ELSE 0)

\* socket_get_poll_status: the poll bits of an event set
PollStatus(e) ==
    (IF "FD_READ" \in e \/ "FD_CLOSE" \in e THEN LINUX_POLLIN ELSE 0)
    + (IF "FD_CLOSE" \in e THEN LINUX_POLLHUP ELSE 0)
    + (IF "FD_WRITE" \in e THEN LINUX_POLLOUT ELSE 0)

\* where a call continues when socket_wait_event returns rv
AfterWaitPc(o, fl, rv) ==
    IF o = "connect" THEN "c_after"
    ELSE IF rv = 0
         THEN IF o \in RecvFromOps /\ "MSG_PEEK" \notin fl THEN "h_clear" ELSE "h_op"
         ELSE IF o = "sendmmsg" THEN "mm_next" ELSE "s_release"

\* socket_wait_event returns rv to its caller: the loops of the send, recv and
\* accept paths assign it to r; socket_connect drops it
AfterWait(t, rv) ==
    /\ spc' = [spc EXCEPT ![t] = AfterWaitPc(sop[t], sflags[t], rv)]
    /\ sr' = [sr EXCEPT ![t] = IF sop[t] = "connect" THEN @ ELSE rv]

(* --------------------------- call entry ------------------------------- *)
\* the calls thread t makes: on a connection one thread sends and connects and
\* one receives, or one thread controls it and sends batches and one reads and
\* writes; on a listening socket two threads accept
OpsOf(t) ==
    CASE mode[t] = "sender" -> SendOps \cup {"connect"}
      [] mode[t] = "receiver" -> RecvOps
      [] mode[t] \in {"acceptor", "listener"} -> {"accept4"}
      [] mode[t] = "controller" -> SimpleOps \cup {"sendmmsg"}
      [] mode[t] = "readwriter" -> {"read", "write"}
      [] OTHER -> {}

\* the network events the host records on this socket
HostBits ==
    IF \E t \in Threads : mode[t] \in {"acceptor", "listener"}
    THEN {"FD_ACCEPT"}
    ELSE {"FD_READ", "FD_WRITE", "FD_CLOSE"}

\* the number of calls made on the socket: one more on a listening socket with
\* a single accepting thread
SockBudget ==
    IF \E t \in Threads : mode[t] = "listener" THEN MaxSockCalls + 1 ELSE MaxSockCalls

\* a vtable call on the socket: socket_sendto, socket_sendmsg, socket_sendmmsg,
\* socket_recvfrom, socket_recvmsg, socket_accept4, socket_connect
SockStart(t) ==
    /\ spc[t] = "idle"
    /\ scalls < SockBudget
    /\ \E o \in OpsOf(t) : \E fl \in FlagsOf(o) :
          /\ sop' = [sop EXCEPT ![t] = o]
          /\ sflags' = [sflags EXCEPT ![t] = fl]
    /\ spc' = [spc EXCEPT ![t] = "s_mutex"]
    /\ scalls' = scalls + 1
    /\ UNCHANGED <<nonblock, mutex, events, connect_error, event_handle,
                   net_pending, net_error, host_ready, connecting, sev, sr, mm_i,
                   wsa_error, sret, interrupted>>
    /\ UNCHANGED <<wouldblock, futexvars, filevars>>

\* socket_get_poll_status: runs without the socket mutex
PollStart(t) ==
    /\ spc[t] = "idle"
    /\ mode[t] = "poller"
    /\ scalls < SockBudget
    /\ sop' = [sop EXCEPT ![t] = "poll"]
    /\ spc' = [spc EXCEPT ![t] = "we_enum"]
    /\ scalls' = scalls + 1
    /\ UNCHANGED <<nonblock, mutex, events, connect_error, event_handle,
                   net_pending, net_error, host_ready, connecting, sflags, sev, sr,
                   mm_i, wsa_error, sret, interrupted>>
    /\ UNCHANGED <<wouldblock, futexvars, filevars>>

\* mutant: the call goes on without waiting for the mutex
AcquireMutex_nowait(t) ==
    /\ spc[t] = "s_mutex"
    /\ mutex' = t
    /\ spc' = [spc EXCEPT ![t] = IF sop[t] = "connect" THEN "c_connect"
                                  ELSE IF sop[t] \in SimpleOps THEN "x_host"
                                  ELSE "we_enum"]
    /\ UNCHANGED <<nonblock, events, connect_error, event_handle, net_pending,
                   net_error, host_ready, connecting, sop, sflags, sev, sr, mm_i,
                   wsa_error, sret, interrupted, scalls>>
    /\ UNCHANGED <<wouldblock, futexvars, filevars>>

\* WaitForSingleObject(socket->mutex, INFINITE) returned: the mutex was free
AcquireMutex(t) ==
    /\ spc[t] = "s_mutex"
    /\ mutex = NULL
    /\ mutex' = t
    /\ spc' = [spc EXCEPT ![t] = IF sop[t] = "connect" THEN "c_connect"
                                  ELSE IF sop[t] \in SimpleOps THEN "x_host"
                                  ELSE "we_enum"]
    /\ UNCHANGED <<nonblock, events, connect_error, event_handle, net_pending,
                   net_error, host_ready, connecting, sop, sflags, sev, sr, mm_i,
                   wsa_error, sret, interrupted, scalls>>
    /\ UNCHANGED <<wouldblock, futexvars, filevars>>

\* socket.c:657-692, 739-790, 1004-1011: the arguments are rejected before the
\* mutex is taken
ArgError(t) ==
    /\ spc[t] = "s_mutex"
    /\ sop[t] \in CheckedOps
    /\ sret' = [sret EXCEPT ![t] = -L_EINVAL]
    /\ spc' = [spc EXCEPT ![t] = "s_done"]
    /\ UNCHANGED <<nonblock, mutex, events, connect_error, event_handle,
                   net_pending, net_error, host_ready, connecting, sop, sflags, sev,
                   sr, mm_i, wsa_error, interrupted, scalls>>
    /\ UNCHANGED <<wouldblock, futexvars, filevars>>

\* bind / listen / getsockname / getpeername / shutdown / setsockopt /
\* getsockopt: the host call succeeds or fails; an unbound (WSAEINVAL)
\* getsockname of the AF_INET socket is answered with a zero address
SimpleHostCall(t) ==
    /\ spc[t] = "x_host"
    /\ \E err \in {0, WSAEINVAL} :
          /\ wsa_error' = [wsa_error EXCEPT ![t] = IF err = 0 THEN @ ELSE err]
          /\ sr' = [sr EXCEPT ![t] = IF sop[t] = "getsockname" THEN 0
                                     ELSE translate_socket_error(err)]
    /\ spc' = [spc EXCEPT ![t] = "s_release"]
    /\ UNCHANGED <<nonblock, mutex, events, connect_error, event_handle,
                   net_pending, net_error, host_ready, connecting, sop, sflags, sev,
                   mm_i, sret, interrupted, scalls>>
    /\ UNCHANGED <<wouldblock, futexvars, filevars>>

(* ------------------------- socket_wait_event -------------------------- *)
\* socket.c:210-225: WSAEnumNetworkEvents copies the host's record, clears it
\* and resets the event; the error of an FD_CONNECT event is stored
UpdateEnum(t) ==
    /\ spc[t] = "we_enum"
    /\ sev' = [sev EXCEPT ![t] = net_pending]
    /\ net_pending' = {}
    /\ event_handle' = FALSE
    /\ connect_error' = IF "FD_CONNECT" \in net_pending THEN net_error ELSE connect_error
    /\ spc' = [spc EXCEPT ![t] = "we_or"]
    /\ UNCHANGED <<nonblock, mutex, events, net_error, host_ready, connecting, sop,
                   sflags, sr, mm_i, wsa_error, sret, interrupted, scalls>>
    /\ UNCHANGED <<wouldblock, futexvars, filevars>>

\* socket.c:226-233 and 281-286: the rest of socket_update_events_unsafe, and
\* what its caller does with the result
UpdateOr(t) ==
    /\ spc[t] = "we_or"
    /\ LET u == socket_update_events_unsafe(events, connect_error, sev[t], EventOf(sop[t]))
       IN /\ events' = u.events
          /\ connect_error' = u.connect_error
          /\ wsa_error' = [wsa_error EXCEPT ![t] = IF u.report THEN u.last_error ELSE @]
          /\ IF sop[t] = "poll"
             THEN /\ spc' = [spc EXCEPT ![t] = "s_done"]
                  /\ sret' = [sret EXCEPT ![t] = PollStatus(u.e)]
                  /\ UNCHANGED sr
             ELSE /\ UNCHANGED sret
                  /\ IF u.e \cap EventOf(sop[t]) # {}
                     THEN AfterWait(t, 0)
                     ELSE IF NonBlocking(t)
                          THEN AfterWait(t, -L_EWOULDBLOCK)
                          ELSE /\ spc' = [spc EXCEPT ![t] = "we_sleep"]
                               /\ UNCHANGED sr
          /\ wouldblock' = [wouldblock EXCEPT ![t] =
                @ \/ (sop[t] # "poll" /\ u.e \cap EventOf(sop[t]) = {} /\ NonBlocking(t))]
    /\ sev' = [sev EXCEPT ![t] = {}]
    /\ UNCHANGED <<nonblock, mutex, event_handle, net_pending, net_error,
                   host_ready, connecting, sop, sflags, mm_i, interrupted, scalls>>
    /\ UNCHANGED <<futexvars, filevars>>

\* socket.c:287: signal_wait found the event signalled when it was called
WaitEventSignalled(t) ==
    /\ spc[t] = "we_sleep"
    /\ event_handle
    /\ spc' = [spc EXCEPT ![t] = "we_enum"]
    /\ UNCHANGED <<nonblock, mutex, events, connect_error, event_handle,
                   net_pending, net_error, host_ready, connecting, sop, sflags, sev,
                   sr, mm_i, wsa_error, sret, interrupted, scalls>>
    /\ UNCHANGED <<wouldblock, futexvars, filevars>>

\* socket.c:287-288: signal_wait returned WAIT_INTERRUPTED
WaitEventInterrupted(t) ==
    /\ spc[t] = "we_sleep"
    /\ interrupted' = [interrupted EXCEPT ![t] = TRUE]
    /\ AfterWait(t, -L_EINTR)
    /\ UNCHANGED <<nonblock, mutex, events, connect_error, event_handle,
                   net_pending, net_error, host_ready, connecting, sop, sflags, sev,
                   mm_i, wsa_error, sret, scalls>>
    /\ UNCHANGED <<wouldblock, futexvars, filevars>>

(* ------------------------ the host operations ------------------------- *)
\* socket.c:376-377: recvfrom without MSG_PEEK clears FD_READ before the call
RecvClear(t) ==
    /\ spc[t] = "h_clear"
    /\ events' = events \ {"FD_READ"}
    /\ spc' = [spc EXCEPT ![t] = "h_op"]
    /\ UNCHANGED <<nonblock, mutex, connect_error, event_handle, net_pending,
                   net_error, host_ready, connecting, sop, sflags, sev, sr, mm_i,
                   wsa_error, sret, interrupted, scalls>>
    /\ UNCHANGED <<wouldblock, futexvars, filevars>>

\* what a completed host operation returns
HostResults(o, ready) ==
    IF o \in SendOps THEN {1, MsgLen}
    ELSE IF o = "accept4" THEN {NewFd}
    ELSE IF "FD_READ" \in ready THEN {1} ELSE {0}

\* the host can complete the operation now (a receive returns 0 at end of stream)
HostCanComplete(o, ready) ==
    \/ BitOf(o) \in ready
    \/ o \in RecvOps /\ "FD_CLOSE" \in ready

\* sendto / WSASendMsg / recvfrom / WSARecvMsg / accept succeeded; the call may
\* use up the readiness (a peek does not)
HostOpSuccess(t) ==
    /\ spc[t] = "h_op"
    /\ HostCanComplete(sop[t], host_ready)
    /\ \E n \in HostResults(sop[t], host_ready) : sr' = [sr EXCEPT ![t] = n]
    /\ \/ UNCHANGED host_ready
       \/ /\ "MSG_PEEK" \notin sflags[t]
          /\ BitOf(sop[t]) \in host_ready
          /\ host_ready' = host_ready \ {BitOf(sop[t])}
    /\ spc' = [spc EXCEPT ![t] = IF sop[t] = "sendmmsg" THEN "mm_next" ELSE "s_release"]
    /\ UNCHANGED <<nonblock, mutex, events, connect_error, event_handle,
                   net_pending, net_error, connecting, sop, sflags, sev, mm_i,
                   wsa_error, sret, interrupted, scalls>>
    /\ UNCHANGED <<wouldblock, futexvars, filevars>>

\* the host operation failed with WSAEWOULDBLOCK: recvfrom loops at once, the
\* other paths clear their bit first
HostOpWouldBlock(t) ==
    /\ spc[t] = "h_op"
    /\ ~HostCanComplete(sop[t], host_ready)
    /\ wsa_error' = [wsa_error EXCEPT ![t] = WSAEWOULDBLOCK]
    /\ spc' = [spc EXCEPT ![t] = IF sop[t] \in RecvFromOps THEN "we_enum" ELSE "h_post"]
    /\ UNCHANGED <<nonblock, mutex, events, connect_error, event_handle,
                   net_pending, net_error, host_ready, connecting, sop, sflags, sev,
                   sr, mm_i, sret, interrupted, scalls>>
    /\ UNCHANGED <<wouldblock, futexvars, filevars>>

\* the host operation failed with another error (the peer has reset the
\* connection): the paths return the translated error, socket_recvmsg_unsafe
\* after it has cleared FD_READ
HostOpError(t) ==
    /\ spc[t] = "h_op"
    /\ "FD_CLOSE" \in host_ready
    /\ wsa_error' = [wsa_error EXCEPT ![t] = WSAECONNRESET]
    /\ IF sop[t] = "recvmsg"
       THEN /\ spc' = [spc EXCEPT ![t] = "h_post"]
            /\ UNCHANGED sr
       ELSE /\ spc' = [spc EXCEPT ![t] = IF sop[t] = "sendmmsg" THEN "mm_next"
                                         ELSE "s_release"]
            /\ sr' = [sr EXCEPT ![t] = translate_socket_error(WSAECONNRESET)]
    /\ UNCHANGED <<nonblock, mutex, events, connect_error, event_handle,
                   net_pending, net_error, host_ready, connecting, sop, sflags, sev,
                   mm_i, sret, interrupted, scalls>>
    /\ UNCHANGED <<wouldblock, futexvars, filevars>>

\* socket.c:317, 363, 899 (after WSAEWOULDBLOCK) and 457 (after any failure of
\* WSARecvMsg): _InterlockedAnd(&f->shared->events, ~bit)
PostClear(t) ==
    /\ spc[t] = "h_post"
    /\ events' = events \ {BitOf(sop[t])}
    /\ IF wsa_error[t] = WSAEWOULDBLOCK
       THEN /\ spc' = [spc EXCEPT ![t] = "we_enum"]
            /\ UNCHANGED sr
       ELSE /\ spc' = [spc EXCEPT ![t] = "s_release"]
            /\ sr' = [sr EXCEPT ![t] = translate_socket_error(wsa_error[t])]
    /\ UNCHANGED <<nonblock, mutex, connect_error, event_handle, net_pending,
                   net_error, host_ready, connecting, sop, sflags, sev, mm_i,
                   wsa_error, sret, interrupted, scalls>>
    /\ UNCHANGED <<wouldblock, futexvars, filevars>>

\* socket.c:1160-1184: what socket_sendmmsg does with the len of message i
sendmmsg_step(i, len) ==
    IF i = 0 /\ len < 0 THEN [out |-> TRUE, r |-> len]
    ELSE IF i = 0 /\ len = 0 THEN [out |-> TRUE, r |-> -L_EWOULDBLOCK]
    ELSE IF len <= 0 THEN [out |-> TRUE, r |-> i]
    ELSE IF len < MsgLen THEN [out |-> TRUE, r |-> i + 1]
    ELSE IF i + 1 < Vlen THEN [out |-> FALSE, r |-> len]
    ELSE [out |-> TRUE, r |-> Vlen]

SendmmsgNext(t) ==
    /\ spc[t] = "mm_next"
    /\ LET st == sendmmsg_step(mm_i[t], sr[t])
       IN IF st.out
          THEN /\ sr' = [sr EXCEPT ![t] = st.r]
               /\ spc' = [spc EXCEPT ![t] = "s_release"]
               /\ UNCHANGED mm_i
          ELSE /\ mm_i' = [mm_i EXCEPT ![t] = @ + 1]
               /\ spc' = [spc EXCEPT ![t] = "we_enum"]
               /\ UNCHANGED sr
    /\ UNCHANGED <<nonblock, mutex, events, connect_error, event_handle,
                   net_pending, net_error, host_ready, connecting, sop, sflags, sev,
                   wsa_error, sret, interrupted, scalls>>
    /\ UNCHANGED <<wouldblock, futexvars, filevars>>

(* --------------------------- socket_connect --------------------------- *)
\* socket.c:794-800: connect() succeeded, or failed with an error other than
\* WSAEWOULDBLOCK
ConnectDone(t) ==
    /\ spc[t] = "c_connect"
    /\ \E err \in {0, WSAECONNREFUSED} :
          /\ wsa_error' = [wsa_error EXCEPT ![t] = IF err = 0 THEN @ ELSE err]
          /\ sr' = [sr EXCEPT ![t] = translate_socket_error(err)]
    /\ spc' = [spc EXCEPT ![t] = "s_release"]
    /\ UNCHANGED <<nonblock, mutex, events, connect_error, event_handle,
                   net_pending, net_error, host_ready, connecting, sop, sflags, sev,
                   mm_i, sret, interrupted, scalls>>
    /\ UNCHANGED <<wouldblock, futexvars, filevars>>

\* socket.c:796-811: connect() failed with WSAEWOULDBLOCK: -EINPROGRESS on a
\* non-blocking file, else wait for FD_CONNECT
ConnectWouldBlock(t) ==
    /\ spc[t] = "c_connect"
    /\ ~connecting
    /\ connecting' = TRUE
    /\ wsa_error' = [wsa_error EXCEPT ![t] = WSAEWOULDBLOCK]
    /\ IF nonblock
       THEN /\ sr' = [sr EXCEPT ![t] = -L_EINPROGRESS]
            /\ spc' = [spc EXCEPT ![t] = "s_release"]
       ELSE /\ spc' = [spc EXCEPT ![t] = "we_enum"]
            /\ UNCHANGED sr
    /\ UNCHANGED <<nonblock, mutex, events, connect_error, event_handle,
                   net_pending, net_error, host_ready, sop, sflags, sev, mm_i, sret,
                   interrupted, scalls>>
    /\ UNCHANGED <<wouldblock, futexvars, filevars>>

\* socket.c:810: r = translate_socket_error(WSAGetLastError()), whatever
\* socket_wait_event returned
ConnectAfterWait(t) ==
    /\ spc[t] = "c_after"
    /\ sr' = [sr EXCEPT ![t] = translate_socket_error(wsa_error[t])]
    /\ spc' = [spc EXCEPT ![t] = "s_release"]
    /\ UNCHANGED <<nonblock, mutex, events, connect_error, event_handle,
                   net_pending, net_error, host_ready, connecting, sop, sflags, sev,
                   mm_i, wsa_error, sret, interrupted, scalls>>
    /\ UNCHANGED <<wouldblock, futexvars, filevars>>

\* mutant: an error return skips ReleaseMutex
ReleaseMutex_leak(t) ==
    /\ spc[t] = "s_release"
    /\ mutex' = IF sr[t] < 0 THEN mutex ELSE NULL
    /\ sret' = [sret EXCEPT ![t] = sr[t]]
    /\ spc' = [spc EXCEPT ![t] = "s_done"]
    /\ UNCHANGED <<nonblock, events, connect_error, event_handle, net_pending,
                   net_error, host_ready, connecting, sop, sflags, sev, sr, mm_i,
                   wsa_error, interrupted, scalls>>
    /\ UNCHANGED <<wouldblock, futexvars, filevars>>

\* ReleaseMutex(socket->mutex); return r
ReleaseMutex(t) ==
    /\ spc[t] = "s_release"
    /\ mutex' = NULL
    /\ sret' = [sret EXCEPT ![t] = sr[t]]
    /\ spc' = [spc EXCEPT ![t] = "s_done"]
    /\ UNCHANGED <<nonblock, events, connect_error, event_handle, net_pending,
                   net_error, host_ready, connecting, sop, sflags, sev, sr, mm_i,
                   wsa_error, interrupted, scalls>>
    /\ UNCHANGED <<wouldblock, futexvars, filevars>>

\* the call has returned to the guest; its arguments and locals are dead (every
\* path that reads the last socket error has set it in the same call)
SockExit(t) ==
    /\ spc[t] = "s_done"
    /\ spc' = [spc EXCEPT ![t] = "idle"]
    /\ sop' = [sop EXCEPT ![t] = "NONE"]
    /\ sflags' = [sflags EXCEPT ![t] = {}]
    /\ sr' = [sr EXCEPT ![t] = 0]
    /\ mm_i' = [mm_i EXCEPT ![t] = 0]
    /\ wsa_error' = [wsa_error EXCEPT ![t] = 0]
    /\ sret' = [sret EXCEPT ![t] = 0]
    /\ interrupted' = [interrupted EXCEPT ![t] = FALSE]
    /\ wouldblock' = [wouldblock EXCEPT ![t] = FALSE]
    /\ UNCHANGED <<nonblock, mutex, events, connect_error, event_handle,
                   net_pending, net_error, host_ready, connecting, sev, scalls>>
    /\ UNCHANGED <<futexvars, filevars>>

(* ------------------------------ the host ------------------------------ *)
\* SetEvent on the manual-reset event satisfies the wait of every thread that is
\* suspended on it in signal_wait (socket.c:287), at once: a later reset does
\* not put such a thread back to sleep
SetEvent(pcs) == [t \in Threads |-> IF pcs[t] = "we_sleep" THEN "we_enum" ELSE pcs[t]]

\* the host records a network event the socket is selected for (socket.c:542)
\* and signals the event: data or a connection arrived, buffer space became
\* free, the peer closed
HostRecord ==
    /\ \E b \in HostBits :
          /\ b \notin net_pending
          /\ net_pending' = net_pending \cup {b}
          /\ host_ready' = host_ready \cup {b}
    /\ event_handle' = TRUE
    /\ spc' = SetEvent(spc)
    /\ UNCHANGED <<nonblock, mutex, events, connect_error, net_error, connecting,
                   sop, sflags, sev, sr, mm_i, wsa_error, sret, interrupted, scalls>>
    /\ UNCHANGED <<wouldblock, futexvars, filevars>>

\* the connect in progress completed or failed: FD_CONNECT with its error code
HostConnectDone ==
    /\ connecting
    /\ connecting' = FALSE
    /\ net_pending' = net_pending \cup {"FD_CONNECT"}
    /\ \E err \in {0, WSAECONNREFUSED} : net_error' = err
    /\ event_handle' = TRUE
    /\ spc' = SetEvent(spc)
    /\ UNCHANGED <<nonblock, mutex, events, connect_error, host_ready, sop, sflags,
                   sev, sr, mm_i, wsa_error, sret, interrupted, scalls>>
    /\ UNCHANGED <<wouldblock, futexvars, filevars>>

(* -------------------------- specification ----------------------------- *)
SockInit ==
    /\ InitCommon
    /\ \/ mode = [t \in Threads |-> IF t = 1 THEN "sender"
                                     ELSE IF t = 2 THEN "receiver" ELSE "poller"]
       \/ mode = [t \in Threads |-> IF t <= 2 THEN "acceptor" ELSE "poller"]
       \/ mode = [t \in Threads |-> IF t = 1 THEN "controller"
                                     ELSE IF t = 2 THEN "readwriter" ELSE "poller"]
    /\ avoid = NULL
    /\ SockInitCommon
    /\ FileInitCommon
    /\ nonblock \in BOOLEAN

SockNext ==
    \/ HostRecord
    \/ HostConnectDone
    \/ \E t \in Threads : SockStart(t)
    \/ \E t \in Threads : PollStart(t)
    \/ \E t \in Threads : ArgError(t)
    \/ \E t \in Threads : AcquireMutex(t)
    \/ \E t \in Threads : SimpleHostCall(t)
    \/ \E t \in Threads : UpdateEnum(t)
    \/ \E t \in Threads : UpdateOr(t)
    \/ \E t \in Threads : WaitEventSignalled(t)
    \/ \E t \in Threads : WaitEventInterrupted(t)
    \/ \E t \in Threads : RecvClear(t)
    \/ \E t \in Threads : HostOpSuccess(t)
    \/ \E t \in Threads : HostOpWouldBlock(t)
    \/ \E t \in Threads : HostOpError(t)
    \/ \E t \in Threads : PostClear(t)
    \/ \E t \in Threads : SendmmsgNext(t)
    \/ \E t \in Threads : ConnectDone(t)
    \/ \E t \in Threads : ConnectWouldBlock(t)
    \/ \E t \in Threads : ConnectAfterWait(t)
    \/ \E t \in Threads : ReleaseMutex(t)
    \/ \E t \in Threads : SockExit(t)

SockSpec == SockInit /\ [][SockNext]_vars

(* ---------- scenario: a non-blocking listener, accepts and polls -------- *)
AcceptInit ==
    /\ InitCommon
    /\ mode = [t \in Threads |-> IF t = 1 THEN "listener" ELSE "poller"]
    /\ avoid = NULL
    /\ SockInitCommon
    /\ FileInitCommon
    /\ nonblock = TRUE

AcceptNext ==
    \/ HostRecord
    \/ \E t \in Threads : SockStart(t)
    \/ \E t \in Threads : PollStart(t)
    \/ \E t \in Threads : AcquireMutex(t)
    \/ \E t \in Threads : UpdateEnum(t)
    \/ \E t \in Threads : UpdateOr(t)
    \/ \E t \in Threads : HostOpSuccess(t)
    \/ \E t \in Threads : HostOpWouldBlock(t)
    \/ \E t \in Threads : PostClear(t)
    \/ \E t \in Threads : ReleaseMutex(t)
    \/ \E t \in Threads : SockExit(t)

AcceptSpec == AcceptInit /\ [][AcceptNext]_vars

\* the steps a thread takes when it is scheduled: everything but the start of a
\* call and the delivery of a signal
SockProgress(t) ==
    \/ AcquireMutex(t) \/ SimpleHostCall(t)
    \/ UpdateEnum(t) \/ UpdateOr(t) \/ WaitEventSignalled(t)
    \/ RecvClear(t) \/ HostOpSuccess(t) \/ HostOpWouldBlock(t) \/ HostOpError(t)
    \/ PostClear(t) \/ SendmmsgNext(t) \/ ConnectDone(t) \/ ConnectWouldBlock(t)
    \/ ConnectAfterWait(t) \/ ReleaseMutex(t) \/ SockExit(t)

SockFairness == \A t \in Threads : WF_vars(SockProgress(t))

\* the socket under a fair scheduler; the host is free to stay silent
SockFairSpec == SockInit /\ [][SockNext]_vars /\ SockFairness

\* C1: no lost wakeup. Thread A, calling WAIT(x, 0, INFINITE) while thread B
\* stores 1 to x and then calls WAKE(x, 1), eventually returns from WAIT, and it
\* returns 0.
C1_NoLostWakeup ==
    \A t \in Threads :
        [](mode[t] = "A0" => <>(mode[t] = "A1" /\ pc[t] = "done" /\ ret[t] = 0))

\* A was queued and blocked when B's WAKE walked the bucket and signalled it
C1_Witness ==
    \E t \in Threads : mode[t] = "A1" /\ pc[t] = "w_sleep" /\ wait_event[t]

(* ------------------------- claims: futex core ------------------------- *)
Min(a, b) == IF a < b THEN a ELSE b

\* the wait blocks queued on address a, in list order
QueueOn(wl, ba, a) == SelectSeq(wl[futex_hash(a)], LAMBDA u : ba[u] = a)

IsLinked(wl, u) == \E b \in Buckets : InList(wl[b], u)

\* thread t takes the step that runs the wake/requeue loop of a call of kind o
LoopStep(t, o) == pc[t] = "q_body" /\ op[t] = o /\ pc'[t] = "q_unlock1"

\* the waiters a step unlinks, and the threads whose wake event it sets
Unlinked == {u \in Threads : IsLinked(wait_list, u) /\ ~IsLinked(wait_list', u)}

Signalled == {u \in Threads : ~wait_event[u] /\ wait_event'[u]}

\* what every WAKE does, whatever its count: it signals exactly the waiters it
\* unlinks, all of them queued on its address, rewrites no block, and returns
\* their number
WakeFrame(t) ==
    /\ LoopStep(t, "WAKE") =>
          /\ Unlinked = Signalled
          /\ \A u \in Unlinked : blk_addr[u] = addr[t]
          /\ num_woken'[t] = Cardinality(Unlinked)
          /\ blk_addr' = blk_addr
          /\ \A b \in Buckets \ {futex_hash(addr[t])} : wait_list'[b] = wait_list[b]
    /\ (op[t] = "WAKE" /\ pc[t] = "q_unlock1" /\ pc'[t] = "done") =>
          ret'[t] = num_woken[t]

C3_UnlinkedOnReturn ==
    \A t \in Threads : (pc[t] = "done" /\ op[t] = "WAIT") => ~Linked(t)

\* C4: a WAIT returns 0 exactly when it saw a value mismatch or a waker removed
\* and signalled its block; it returns EINTR or ETIMEDOUT only if no waker
\* removed its block.
C4_ZeroIffWoken ==
    \A t \in Threads :
        (pc[t] = "done" /\ op[t] = "WAIT") =>
            ((ret[t] = 0) <=> (result[t] = "NONE" \/ t \in woken))

\* C5: CMP_REQUEUE(a, n, b, expected) run while *a # expected returns EAGAIN,
\* signals no waiter, rewrites no block address and changes no wait list.
C5_CmpRequeueMismatch ==
    [][\A t \in Threads :
          /\ (pc[t] = "q_body" /\ pc'[t] # "q_body" /\ op[t] = "CMP_REQUEUE"
                /\ mem[addr[t]] # val3[t]) =>
                /\ UNCHANGED <<wait_list, blk_addr, wait_event>>
                /\ pc'[t] = "q_mm_unlock1"
          /\ (pc[t] = "q_mm_unlock1" /\ pc'[t] # "q_mm_unlock1") =>
                /\ UNCHANGED <<wait_list, blk_addr, wait_event>>
                /\ pc'[t] = "q_mm_unlock2"
          /\ (pc[t] = "q_mm_unlock2" /\ pc'[t] # "q_mm_unlock2") =>
                /\ UNCHANGED <<wait_list, blk_addr, wait_event>>
                /\ pc'[t] = "done"
                /\ ret'[t] = -L_EAGAIN]_vars

\* a mismatching CMP_REQUEUE is returning while a waiter is queued on its address
C5_Witness ==
    \E t \in Threads :
        /\ pc[t] = "q_mm_unlock2"
        /\ QueueOn(wait_list, blk_addr, addr[t]) # <<>>

\* the waiters of q that a step has not unlinked, in order
Kept(q) == SelectSeq(q, LAMBDA u : u \notin Unlinked)

IsPrefix(p, q) == Len(p) <= Len(q) /\ \A i \in 1..Len(p) : p[i] = q[i]

\* C6 as stated: after REQUEUE(a, n, b) that woke w waiters, (waiters on a) +
\* (waiters on b) = (waiters on a before) - w, and the waiters left on a are a
\* prefix of the previous waiters on a with the woken ones skipped.
C6_ConservationAsStated ==
    [][\A t \in Threads :
          LoopStep(t, "REQUEUE") =>
             LET a == addr[t]
                 b == addr2[t]
             IN  /\ Len(QueueOn(wait_list', blk_addr', a))
                      + Len(QueueOn(wait_list', blk_addr', b))
                    = Len(QueueOn(wait_list, blk_addr, a)) - num_woken'[t]
                 /\ IsPrefix(QueueOn(wait_list', blk_addr', a),
                             Kept(QueueOn(wait_list, blk_addr, a)))]_vars

\* C6 amended: after REQUEUE(a, n, b) with a # b that woke w waiters, (waiters
\* on a) + (waiters on b) = (waiters on a before) + (waiters on b before) - w;
\* with a = b, (waiters on a) = (waiters on a before) - w. The waiters woken
\* are exactly the w unlinked ones, and the waiters left on a are a prefix of
\* the previous waiters on a with the woken ones skipped.
C6_Conservation ==
    [][\A t \in Threads :
          LoopStep(t, "REQUEUE") =>
             LET a == addr[t]
                 b == addr2[t]
                 w == num_woken'[t]
             IN  /\ w = Cardinality(Unlinked)
                 /\ Unlinked = Signalled
                 /\ IF a # b
                    THEN Len(QueueOn(wait_list', blk_addr', a))
                            + Len(QueueOn(wait_list', blk_addr', b))
                         = Len(QueueOn(wait_list, blk_addr, a))
                            + Len(QueueOn(wait_list, blk_addr, b)) - w
                    ELSE Len(QueueOn(wait_list', blk_addr', a))
                         = Len(QueueOn(wait_list, blk_addr, a)) - w
                 /\ IsPrefix(QueueOn(wait_list', blk_addr', a),
                             Kept(QueueOn(wait_list, blk_addr, a)))]_vars

\* a REQUEUE over two buckets has woken one waiter and moved another one to a
\* destination
C6_Witness ==
    \E t \in Threads :
        /\ pc[t] = "q_unlock1" /\ op[t] = "REQUEUE" /\ num_woken[t] = 1
        /\ addr[t] # addr2[t]
        /\ QueueOn(wait_list, blk_addr, addr2[t]) # <<>>

\* the positions at which a thread spins in lock_bucket
LockPcs == {"w_lock", "w_relock", "q_lock1", "q_lock2"}

\* C7: deadlock freedom of the bucket spinlocks under fair scheduling: every
\* call that is acquiring a bucket lock eventually acquires it, and every
\* bucket lock that is held is eventually released.
C7_DeadlockFree ==
    /\ \A t \in Threads : (pc[t] \in LockPcs) ~> (pc[t] \notin LockPcs)
    /\ \A b \in Buckets : (spin_lock[b] = 1) ~> (spin_lock[b] = 0)

\* two requeues in opposite directions between two buckets: one holds its first
\* bucket and spins on the second, the other spins on its first
C7_Witness ==
    \E t, u \in Threads :
        /\ pc[t] = "q_lock2" /\ pc[u] = "q_lock1"
        /\ TwoBuckets(t) /\ TwoBuckets(u)
        /\ addr[t] = addr2[u] /\ addr2[t] = addr[u]

(* ----------------------- socket blocking contract --------------------- *)
\* thread t's call has returned and its result is still in sret[t]
Returned(t) == spc[t] = "s_done" /\ sop[t] \in SockOps

\* thread t is suspended in the interruptible wait of socket_wait_event
InEventWait(t) == spc[t] = "we_sleep"

\* the host connect of t's call reported WSAEWOULDBLOCK and no FD_CONNECT was
\* surfaced since
ConnectReportedWouldBlock(t) == sop[t] = "connect" /\ wsa_error[t] = WSAEWOULDBLOCK

\* C8 as stated: on a socket with O_NONBLOCK no call enters the interruptible
\* event wait; every call that finds none of its readiness bits set after the
\* drain returns -EWOULDBLOCK, sendmmsg included; connect returns -EINPROGRESS
\* when the host connect reports WOULDBLOCK.
C8_NonBlockingAsStated ==
    nonblock =>
        \A t \in Threads :
            /\ ~InEventWait(t)
            /\ Returned(t) /\ wouldblock[t] => sret[t] = -L_EWOULDBLOCK
            /\ Returned(t) /\ ConnectReportedWouldBlock(t) => sret[t] = -L_EINPROGRESS

\* C8: on a socket with O_NONBLOCK no call enters the interruptible event wait;
\* a call that finds none of its readiness bits set after the drain returns
\* -EWOULDBLOCK, except that sendmmsg returns the number of messages it has
\* already sent when that number is not zero; connect returns -EINPROGRESS when
\* the host connect reports WOULDBLOCK.
C8_NonBlocking ==
    nonblock =>
        \A t \in Threads :
            /\ ~InEventWait(t)
            /\ Returned(t) /\ wouldblock[t] =>
                  sret[t] = IF sop[t] = "sendmmsg" /\ mm_i[t] > 0
                            THEN mm_i[t] ELSE -L_EWOULDBLOCK
            /\ Returned(t) /\ ConnectReportedWouldBlock(t) => sret[t] = -L_EINPROGRESS

\* a sendmmsg on a non-blocking socket sent its first message, found FD_WRITE
\* gone for the second one and returned 1
C8_Witness ==
    \E t \in Threads :
        /\ nonblock
        /\ Returned(t) /\ wouldblock[t]
        /\ sop[t] = "sendmmsg" /\ mm_i[t] = 1 /\ sret[t] = 1

\* thread t's call must not suspend: the file is O_NONBLOCK or the call passed
\* MSG_DONTWAIT
MustNotSuspend(t) ==
    sop[t] \in SockOps /\ (nonblock \/ "MSG_DONTWAIT" \in sflags[t])

\* C9: a call with MSG_DONTWAIT, or on an O_NONBLOCK descriptor, is never held
\* up by another thread that is suspended inside a blocking operation on the
\* same socket: it never waits for the socket mutex while the owner of the
\* mutex is suspended in the event wait.
C9_NonBlockingNeverSuspends ==
    \A t \in Threads :
        MustNotSuspend(t) /\ spc[t] = "s_mutex" =>
            ~(mutex # NULL /\ InEventWait(mutex))

\* C10: a blocking send, recv, accept or connect whose interruptible wait
\* reported a signal returns -EINTR, with the socket mutex released.
C10_InterruptedReturnsEINTR ==
    \A t \in Threads :
        Returned(t) /\ interrupted[t] /\ sop[t] # "sendmmsg" =>
            sret[t] = -L_EINTR /\ mutex # t

(* --------------------------- event reactor ---------------------------- *)
\* thread t is inside socket_wait_event
InWaitEvent(t) == sop[t] \in SockOps /\ spc[t] \in {"we_enum", "we_or", "we_sleep"}

\* C11: no lost readiness. When the host reports a readiness a thread is
\* waiting for in socket_wait_event, the thread eventually leaves
\* socket_wait_event, whatever update_events calls other threads make on the
\* socket (poll_status runs without the mutex).
C11_NoLostReadiness ==
    \A t \in Threads :
        (InWaitEvent(t) /\ EventOf(sop[t]) \cap net_pending # {})
            ~> ~InWaitEvent(t)

\* thread t takes a step of its call
Steps(t) == spc'[t] # spc[t] /\ sop[t] # "NONE"

\* C12: clearing protocol order. In every send, recv, accept, sendmsg and
\* recvmsg path (a peek excepted) the thread issues the host operation only
\* directly after it has cleared the bit the operation consumes, and does not
\* clear the bit once the host operation has returned.
C12_ClearBeforeHostOp ==
    [][\A t \in Threads :
          /\ (Steps(t) /\ spc'[t] = "h_op" /\ "MSG_PEEK" \notin sflags[t])
                => (spc[t] = "h_clear" /\ BitOf(sop[t]) \notin events')
          /\ (Steps(t) /\ spc[t] = "h_post") => events' = events]_vars

\* the bits a step removes from shared.events
Removed == events \ events'

\* thread t, holding the mutex, is at a clear of bit b in a path of the ops
ClearsBy(t, b, ops, pcs) ==
    Steps(t) /\ mutex = t /\ sop[t] \in ops /\ spc[t] \in pcs /\ BitOf(sop[t]) = b

\* C13: shared.events is monotonic between explicit clears. update_events adds
\* only drained bits and removes no bit but FD_CONNECT, and that only when it was
\* requested; FD_READ is removed only by a receive path, FD_WRITE only by a send
\* path, FD_ACCEPT only by accept, each by the thread that holds the mutex and
\* acts on that readiness; FD_CLOSE is never removed.
C13_EventsMonotonic ==
    [][/\ "FD_CLOSE" \notin Removed
       /\ "FD_READ" \in Removed =>
             \E t \in Threads : ClearsBy(t, "FD_READ", RecvOps, {"h_clear", "h_post"})
       /\ "FD_WRITE" \in Removed =>
             \E t \in Threads : ClearsBy(t, "FD_WRITE", SendOps, {"h_post"})
       /\ "FD_ACCEPT" \in Removed =>
             \E t \in Threads : ClearsBy(t, "FD_ACCEPT", {"accept4"}, {"h_post"})
       /\ "FD_CONNECT" \in Removed =>
             \E t \in Threads : Steps(t) /\ spc[t] = "we_or" /\ sop[t] = "connect"
       /\ \A t \in Threads :
             Steps(t) /\ spc[t] = "we_or" =>
                 /\ Removed \subseteq {"FD_CONNECT"}
                 /\ events' \subseteq events \cup sev[t]]_vars

\* a receive is about to clear FD_READ while other bits, FD_CLOSE among them,
\* are accumulated
C13_Witness ==
    \E t \in Threads :
        /\ spc[t] = "h_clear"
        /\ {"FD_READ", "FD_WRITE", "FD_CLOSE"} \subseteq events

\* thread t takes the step that ends socket_update_events_unsafe
UpdateStep(t) == Steps(t) /\ spc[t] = "we_or"

\* FD_CONNECT is set in shared.events once t has ORed its drained bits
ConnectSet(t) == "FD_CONNECT" \in events \cup sev[t]

\* C14: the outcome of a connect is surfaced exactly once. The error of a
\* drained FD_CONNECT event is captured in connect_error. An update_events that
\* requests FD_CONNECT and finds it set makes the captured error the caller's
\* last socket error, resets connect_error and clears FD_CONNECT; an
\* update_events that does not request it (poll_status, the waits of the other
\* calls) retains both, for a later requester.
C14_ConnectSurfacedOnce ==
    [][\A t \in Threads :
          /\ (Steps(t) /\ spc[t] = "we_enum" /\ "FD_CONNECT" \in net_pending)
                => connect_error' = net_error
          /\ (UpdateStep(t) /\ ConnectSet(t) /\ sop[t] = "connect")
                => /\ wsa_error'[t] = connect_error
                   /\ connect_error' = 0
                   /\ "FD_CONNECT" \notin events'
          /\ (UpdateStep(t) /\ ConnectSet(t) /\ sop[t] # "connect")
                => /\ "FD_CONNECT" \in events'
                   /\ connect_error' = connect_error
                   /\ wsa_error'[t] = wsa_error[t]]_vars

\* a poll has drained the refused connect and retained it; the connecting
\* thread is about to find it
C14_Witness ==
    \E t \in Threads, p \in Threads :
        /\ sop[p] = "poll" /\ spc[p] = "s_done"
        /\ sop[t] = "connect" /\ spc[t] = "we_or" /\ sev[t] = {}
        /\ "FD_CONNECT" \in events /\ connect_error = WSAECONNREFUSED

OutsideCall == {"idle", "s_done"}

\* C16: every vtable operation that takes the socket mutex has released it when
\* it returns, on every exit path, error returns included: a thread that is not
\* inside a call never owns the mutex.
C16_MutexReleasedOnReturn ==
    \A t \in Threads : spc[t] \in OutsideCall => mutex # t

\* a bind has failed in the host and returned its error, the mutex is free
C16_Witness ==
    \E t \in Threads :
        /\ Returned(t) /\ sop[t] = "bind"
        /\ wsa_error[t] = WSAEINVAL /\ sret[t] = -L_EINVAL
        /\ mutex = NULL

\* the positions at which a thread executes a host bind / connect / listen /
\* accept / send / recv / sockopt / shutdown call
HostCallPcs == {"h_op", "c_connect", "x_host"}

InHostCall(t) == sop[t] \in SockOps /\ spc[t] \in HostCallPcs

\* thread t is inside a sendmmsg batch: between its first and its last message
InBatch(t) ==
    /\ sop[t] = "sendmmsg"
    /\ spc[t] \in {"we_enum", "we_or", "we_sleep", "h_op", "h_post", "mm_next"}

\* C17: operations on one socket are serialised. At most one thread is in a
\* host call on the socket, it is the owner of the mutex, and while a thread is
\* inside a sendmmsg batch no other thread is in a host call (no send of
\* another thread falls between two messages of the batch).
C17_Serialised ==
    /\ \A t \in Threads : InHostCall(t) => mutex = t
    /\ \A t, u \in Threads : InHostCall(t) /\ InHostCall(u) => t = u
    /\ \A t, u \in Threads : InBatch(t) /\ InHostCall(u) => t = u

\* a write of another thread waits for the mutex while a sendmmsg sends the
\* second message of its batch
C17_Witness ==
    \E t, u \in Threads :
        /\ sop[t] = "sendmmsg" /\ mm_i[t] = 1 /\ spc[t] = "h_op"
        /\ sop[u] = "write" /\ spc[u] = "s_mutex"

(* ------------------------- non-blocking accept ------------------------ *)
\* the bits that are accumulated, recorded by the host, or drained by a thread
\* that has not ORed them yet
Recorded == events \cup net_pending \cup UNION {sev[t] : t \in Threads}

\* C18: non-blocking accept sequence. An accept on an O_NONBLOCK listener that
\* finds no FD_ACCEPT returns EWOULDBLOCK; when the host accept itself reports
\* WOULDBLOCK the FD_ACCEPT bit is cleared and the call still returns
\* EWOULDBLOCK; and the clear never hides the readiness of a connection that is
\* pending in the host: it stays recorded, so that a subsequent accept finds it
\* and returns a new descriptor.
C18_NonBlockingAccept ==
    /\ \A t \in Threads :
          Returned(t) /\ sop[t] = "accept4" =>
              sret[t] = IF wouldblock[t] THEN -L_EWOULDBLOCK ELSE NewFd
    /\ \A t \in Threads :
          (sop[t] = "accept4" /\ spc[t] = "we_enum" /\ wsa_error[t] = WSAEWOULDBLOCK)
              => "FD_ACCEPT" \notin events
    /\ "FD_ACCEPT" \in host_ready => "FD_ACCEPT" \in Recorded

(* ------------------- socket_open and accept4: new files ---------------- *)
AFs == {"AF_UNIX", "AF_INET", "AF_INET6"}
SockTypes == {"SOCK_STREAM", "SOCK_SEQPACKET"}
\* the flag bits carried by the type argument of socket() and by the flags
\* argument of accept4()
OpenFlags == SUBSET {"O_NONBLOCK", "O_CLOEXEC"}

\* the descriptor table entry of file f: close-on-exec as the second argument says
vfs_store_file(f, cloexec) == [f EXCEPT !.cloexec = cloexec]

\* socket.c:629-646: the file socket_open makes
socket_open(domain, type, tflags) ==
    vfs_store_file([af |-> domain, type |-> type, events |-> {}, connect_error |-> 0,
                    flags |-> {"O_RDWR"} \cup (tflags \cap {"O_NONBLOCK"}),
                    cloexec |-> FALSE],
                   "O_CLOEXEC" \in tflags)

\* socket.c:860-874: the file socket_accept4 makes for the accepted connection;
\* file_init gets flags 0 and vfs_store_file gets the literal 0
accept4_new(l, flags) ==
    vfs_store_file([af |-> l.af, type |-> l.type, events |-> {}, connect_error |-> 0,
                    flags |-> flags \cap {"O_NONBLOCK"},
                    cloexec |-> FALSE],
                   FALSE)

FileOpen ==
    /\ lfile = {}
    /\ \E d \in AFs, ty \in SockTypes, fl \in OpenFlags :
          lfile' = {socket_open(d, ty, fl)}
    /\ UNCHANGED <<cfile, msgvec, mm_out, sc_call, sc_out, futexvars, sockvars>>

\* socket.c:226: a connection arrives and FD_ACCEPT is accumulated on the listener
FileListenReady ==
    /\ \E l \in lfile : "FD_ACCEPT" \notin l.events
    /\ lfile' = {[l EXCEPT !.events = @ \cup {"FD_ACCEPT"}] : l \in lfile}
    /\ UNCHANGED <<cfile, msgvec, mm_out, sc_call, sc_out, futexvars, sockvars>>

\* socket.c:843-874: the host accept succeeded; cfile keeps the flags argument
\* next to the new file
FileAccept4 ==
    /\ cfile = {}
    /\ \E l \in lfile, fl \in OpenFlags :
          /\ "FD_ACCEPT" \in l.events
          /\ cfile' = {[arg |-> fl, file |-> accept4_new(l, fl)]}
    /\ UNCHANGED <<lfile, msgvec, mm_out, sc_call, sc_out, futexvars, sockvars>>

NewSockInit ==
    /\ InitCommon
    /\ SockInitCommon
    /\ FileInitCommon
    /\ nonblock = FALSE
    /\ mode = [t \in Threads |-> "poller"]
    /\ avoid = NULL

NewSockNext == FileOpen \/ FileListenReady \/ FileAccept4

NewSockSpec == NewSockInit /\ [][NewSockNext]_vars

\* C19: on a successful accept4(flags) the new socket's af and type equal the
\* listener's, its accumulated events and connect_error start at 0, its file has
\* O_NONBLOCK exactly when flags contains NONBLOCK, and its descriptor is
\* close-on-exec exactly when flags contains CLOEXEC.
C19_AcceptedSocket ==
    \A c \in cfile, l \in lfile :
        /\ c.file.af = l.af
        /\ c.file.type = l.type
        /\ c.file.events = {}
        /\ c.file.connect_error = 0
        /\ ("O_NONBLOCK" \in c.file.flags) <=> ("O_NONBLOCK" \in c.arg)
        /\ c.file.cloexec <=> ("O_CLOEXEC" \in c.arg)

(* --------------------- socket_sendmmsg over a vector -------------------- *)
\* what socket_sendmsg_unsafe returns for a message: an error, or the number of
\* bytes sent
SendErrors == {-L_EWOULDBLOCK, -L_ECONNRESET}

\* a message: the sum of its iov_len, and the result of its send
MsgIn == {mi \in [total : 0..MsgLen, len : SendErrors \cup (0..MsgLen)] : mi.len <= mi.total}

MsgVecs == UNION {[1..k -> MsgIn] : k \in 0..MaxVlen}

\* the loop body with a short send not counted
sendmmsg_msg_fullonly(i, len, total) ==
    IF i = 0 /\ len < 0 THEN [out |-> TRUE, r |-> len, set |-> FALSE]
    ELSE IF i = 0 /\ len = 0 THEN [out |-> TRUE, r |-> -L_EWOULDBLOCK, set |-> FALSE]
    ELSE IF len <= 0 THEN [out |-> TRUE, r |-> i, set |-> FALSE]
    ELSE IF len < total THEN [out |-> TRUE, r |-> i, set |-> TRUE]
    ELSE [out |-> FALSE, r |-> i + 1, set |-> TRUE]

\* socket.c:1159-1184: the loop body for message i (0-based) whose send returned
\* len and whose iovecs sum to total: leave the loop with r, or go on; set says
\* whether msgvec[i].msg_len has been assigned
sendmmsg_msg(i, len, total) ==
    IF i = 0 /\ len < 0 THEN [out |-> TRUE, r |-> len, set |-> FALSE]
    ELSE IF i = 0 /\ len = 0 THEN [out |-> TRUE, r |-> -L_EWOULDBLOCK, set |-> FALSE]
    ELSE IF len <= 0 THEN [out |-> TRUE, r |-> i, set |-> FALSE]
    ELSE IF len < total THEN [out |-> TRUE, r |-> i + 1, set |-> TRUE]
    ELSE [out |-> FALSE, r |-> i + 1, set |-> TRUE]

RECURSIVE sendmmsg_loop(_, _, _)
\* socket.c:1157-1185: the loop from message i on; msg_len maps the (1-based)
\* messages whose msg_len has been assigned to the value assigned
sendmmsg_loop(vec, i, msg_len) ==
    IF i >= Len(vec)
    THEN [r |-> Len(vec), msg_len |-> msg_len]
    ELSE LET st == sendmmsg_msg(i, vec[i + 1].len, vec[i + 1].total)
             ml == IF st.set THEN ((i + 1) :> vec[i + 1].len) @@ msg_len ELSE msg_len
         IN IF st.out THEN [r |-> st.r, msg_len |-> ml]
            ELSE sendmmsg_loop(vec, i + 1, ml)

\* socket.c:1151-1189
socket_sendmmsg(vec) == sendmmsg_loop(vec, 0, <<>>)

SendmmsgCall ==
    /\ mm_out = {}
    /\ mm_out' = {socket_sendmmsg(msgvec)}
    /\ UNCHANGED <<lfile, cfile, msgvec, sc_call, sc_out, futexvars, sockvars>>

SendmmsgInit ==
    /\ InitCommon
    /\ SockInitCommon
    /\ nonblock = FALSE
    /\ mode = [t \in Threads |-> "poller"]
    /\ avoid = NULL
    /\ lfile = {}
    /\ cfile = {}
    /\ msgvec \in MsgVecs
    /\ mm_out = {}
    /\ sc_call = NoCall
    /\ sc_out = {}

SendmmsgVecNext == SendmmsgCall

SendmmsgSpec == SendmmsgInit /\ [][SendmmsgVecNext]_vars

\* message j (1-based) of the vector is sent in full, fails, transfers 0 bytes,
\* is sent short
SentFull(j) == msgvec[j].len > 0 /\ msgvec[j].len = msgvec[j].total
SendFailed(j) == msgvec[j].len < 0
SentZero(j) == msgvec[j].len = 0
SentShort(j) == msgvec[j].len > 0 /\ msgvec[j].len < msgvec[j].total
\* message j is the first that is not sent in full
FirstNotFull(j) ==
    /\ j \in 1..Len(msgvec)
    /\ ~SentFull(j)
    /\ \A h \in 1..(j - 1) : SentFull(h)

\* C20: sendmmsg over a vector of K messages returns K when every message is
\* sent in full; the error of the first message when the first send fails;
\* EWOULDBLOCK when the first send transfers 0 bytes; i when the message at
\* 0-based index i > 0 fails or transfers 0 bytes; i+1 when the message at
\* 0-based index i is sent short; and msg_len is set for each message counted.
\* (A send that transfers 0 bytes is neither full nor short.)
C20_Sendmmsg ==
    \A o \in mm_out :
        /\ (\A j \in 1..Len(msgvec) : SentFull(j)) => o.r = Len(msgvec)
        /\ \A j \in 1..Len(msgvec) :
              FirstNotFull(j) =>
                 /\ (j = 1 /\ SendFailed(j)) => o.r = msgvec[j].len
                 /\ (j = 1 /\ SentZero(j)) => o.r = -L_EWOULDBLOCK
                 /\ (j > 1 /\ (SendFailed(j) \/ SentZero(j))) => o.r = j - 1
                 /\ SentShort(j) => o.r = j
        /\ \A j \in 1..Len(msgvec) :
              j <= o.r => j \in DOMAIN o.msg_len /\ o.msg_len[j] = msgvec[j].len

\* the second of two messages was sent short: both are counted
C20_Witness ==
    /\ Len(msgvec) = 2
    /\ SentFull(1)
    /\ SentShort(2)
    /\ \E o \in mm_out : o.r = 2 /\ o.msg_len[2] = msgvec[2].len

(* ------------------ single calls of the syscall layer ------------------ *)
\* everything but the call under study is as after construction
CallInitCommon ==
    /\ InitCommon
    /\ SockInitCommon
    /\ nonblock = FALSE
    /\ mode = [t \in Threads |-> "poller"]
    /\ avoid = NULL
    /\ lfile = {}
    /\ cfile = {}
    /\ msgvec = <<>>
    /\ mm_out = {}
    /\ sc_out = {}

CallUnchanged == UNCHANGED <<lfile, cfile, msgvec, mm_out, sc_call, futexvars, sockvars>>

(* --------------------------- socket_getsockname ------------------------- *)
SIZEOF_SOCKADDR_IN == 16
SIZEOF_SOCKADDR_IN6 == 28
SIZEOF_SOCKADDR_STORAGE == 128

\* a sockaddr: family, address and port (the zeroed structure has family
\* AF_UNSPEC, which is 0 on both sides)
ZeroSockaddr == [family |-> "AF_UNSPEC", addr |-> 0, port |-> 0]

\* socket.c:154-164: only the family of an INET6 address is rewritten
translate_socket_addr_to_linux(sa) ==
    IF sa.family = "WS_AF_INET6" THEN [sa EXCEPT !.family = "LINUX_AF_INET6"] ELSE sa

\* socket.c:905-958. af is shared->af, host the outcome of the host getsockname
\* (err, and on success the address and its length), addrlen the caller's
\* *addrlen. The result: r, whether the address was copied out, the address in
\* addr_storage, the *addrlen written and the number of bytes copied. The
\* faked address is memset to 0 and nothing else is stored in it.
socket_getsockname(af, host, addrlen) ==
    IF host.err = 0
    THEN [r |-> 0, copied |-> TRUE, sa |-> translate_socket_addr_to_linux(host.sa),
          addrlen |-> host.len, copylen |-> Min(addrlen, host.len)]
    ELSE IF host.err = WSAEINVAL
    THEN IF af = "AF_INET"
         THEN [r |-> 0, copied |-> TRUE, sa |-> ZeroSockaddr,
               addrlen |-> SIZEOF_SOCKADDR_IN, copylen |-> Min(addrlen, SIZEOF_SOCKADDR_IN)]
         ELSE IF af = "AF_INET6"
         THEN [r |-> 0, copied |-> TRUE, sa |-> ZeroSockaddr,
               addrlen |-> SIZEOF_SOCKADDR_IN6, copylen |-> Min(addrlen, SIZEOF_SOCKADDR_IN6)]
         ELSE [r |-> -L_EOPNOTSUPP, copied |-> FALSE, sa |-> ZeroSockaddr,
               addrlen |-> addrlen, copylen |-> 0]
    ELSE [r |-> translate_socket_error(host.err), copied |-> FALSE, sa |-> ZeroSockaddr,
          addrlen |-> addrlen, copylen |-> 0]

\* what the host getsockname reports for a socket of family af: its bound
\* address, WSAEINVAL when it is unbound, or another error
HostNames(af) ==
    LET wsf == IF af = "AF_INET6" THEN "WS_AF_INET6" ELSE "AF_INET"
        len == IF af = "AF_INET6" THEN SIZEOF_SOCKADDR_IN6 ELSE SIZEOF_SOCKADDR_IN
    IN {[err |-> 0, sa |-> [family |-> wsf, addr |-> a, port |-> q], len |-> len] :
            a \in {0, 1}, q \in {1, 2}}
       \cup {[err |-> e, sa |-> ZeroSockaddr, len |-> 0] : e \in {WSAEINVAL, WSAECONNRESET}}

GetsocknameCalls ==
    {[fn |-> "getsockname", af |-> af, host |-> h, addrlen |-> n] :
        af \in AFs, h \in UNION {HostNames(a) : a \in AFs},
        n \in {0, SIZEOF_SOCKADDR_IN, SIZEOF_SOCKADDR_IN6, SIZEOF_SOCKADDR_STORAGE}}

GetsocknameInit ==
    /\ CallInitCommon
    /\ sc_call \in {c \in GetsocknameCalls : c.host \in HostNames(c.af)}

GetsocknameCall ==
    /\ sc_call.fn = "getsockname"
    /\ sc_out = {}
    /\ sc_out' = {socket_getsockname(sc_call.af, sc_call.host, sc_call.addrlen)}
    /\ CallUnchanged

GetsocknameSpec == GetsocknameInit /\ [][GetsocknameCall]_vars

\* C21: getsockname on a socket that was never bound (the host reports
\* WSAEINVAL) succeeds and returns a sockaddr of the socket's own family: for an
\* INET socket family INET with address 0 and port 0, for an INET6 socket
\* family INET6 with all-zero address and port, with *addrlen set to that
\* family's sockaddr size.
C21_GetsocknameUnbound ==
    \A o \in sc_out :
        (sc_call.fn = "getsockname" /\ sc_call.host.err = WSAEINVAL
         /\ sc_call.af \in {"AF_INET", "AF_INET6"}) =>
            /\ o.r = 0
            /\ o.copied
            /\ o.sa.family = (IF sc_call.af = "AF_INET" THEN "AF_INET" ELSE "LINUX_AF_INET6")
            /\ o.sa.addr = 0
            /\ o.sa.port = 0
            /\ o.addrlen = (IF sc_call.af = "AF_INET" THEN SIZEOF_SOCKADDR_IN
                                                     ELSE SIZEOF_SOCKADDR_IN6)

(* ------------------------ socket_get_set_sockopt ------------------------ *)
\* Linux levels and option names (the values of the Linux ABI)
LINUX_SOL_IP == 0
LINUX_SOL_SOCKET == 1
LINUX_SOL_TCP == 6
LINUX_IP_HDRINCL == 3
LINUX_SO_REUSEADDR == 2
LINUX_SO_ERROR == 4
LINUX_SO_BROADCAST == 6
LINUX_SO_SNDBUF == 7
LINUX_SO_RCVBUF == 8
LINUX_SO_KEEPALIVE == 9
LINUX_SO_LINGER == 13
LINUX_TCP_NODELAY == 1

\* socket.c:1040-1079: the options of the SOL_SOCKET case, with their host names
SocketOptName(optname) ==
    CASE optname = LINUX_SO_REUSEADDR -> "SO_REUSEADDR"
      [] optname = LINUX_SO_ERROR -> "SO_ERROR"
      [] optname = LINUX_SO_BROADCAST -> "SO_BROADCAST"
      [] optname = LINUX_SO_SNDBUF -> "SO_SNDBUF"
      [] optname = LINUX_SO_RCVBUF -> "SO_RCVBUF"
      [] optname = LINUX_SO_KEEPALIVE -> "SO_KEEPALIVE"
      [] optname = LINUX_SO_LINGER -> "SO_LINGER"
      [] OTHER -> "NONE"

\* socket.c:1027-1091: the host (level, name) the switch reaches for (level,
\* optname), or <<>> when it reaches the EINVAL return. No case of the outer
\* switch ends with a break: an option the IP case does not know is looked up
\* in the SOL_SOCKET case, and one that case does not know in the TCP case.
sockopt_target(level, optname) ==
    LET tcp == IF optname = LINUX_TCP_NODELAY THEN <<"IPPROTO_TCP", "TCP_NODELAY">>
               ELSE <<>>
        sock == IF SocketOptName(optname) # "NONE"
                THEN <<"SOL_SOCKET", SocketOptName(optname)>>
                ELSE tcp
        ip == IF optname = LINUX_IP_HDRINCL THEN <<"IPPROTO_IP", "IP_HDRINCL">>
              ELSE sock
    IN CASE level = LINUX_SOL_IP -> ip
         [] level = LINUX_SOL_SOCKET -> sock
         [] level = LINUX_SOL_TCP -> tcp
         [] OTHER -> <<>>

\* socket.c:1024-1113: call is "setsockopt" or "getsockopt", err the result of
\* the host call if one is made. The result: r and the host calls made
socket_get_set_sockopt(call, level, optname, err) ==
    LET tg == sockopt_target(level, optname)
    IN IF tg = <<>>
       THEN [r |-> -L_EINVAL, host |-> {}]
       ELSE [r |-> translate_socket_error(err),
             host |-> {[call |-> call, level |-> tg[1], name |-> tg[2]]}]

SockLevels == 0..(LINUX_SOL_TCP + 1)
OptNames == 0..(LINUX_SO_LINGER + 1)

SockoptInit ==
    /\ CallInitCommon
    /\ sc_call \in {[fn |-> "sockopt", call |-> c, level |-> l, optname |-> n, err |-> e] :
                      c \in {"setsockopt", "getsockopt"}, l \in SockLevels,
                      n \in OptNames, e \in {0, WSAENOPROTOOPT}}

SockoptCall ==
    /\ sc_call.fn = "sockopt"
    /\ sc_out = {}
    /\ sc_out' = {socket_get_set_sockopt(sc_call.call, sc_call.level,
                                         sc_call.optname, sc_call.err)}
    /\ CallUnchanged

SockoptSpec == SockoptInit /\ [][SockoptCall]_vars

\* the recognised (level, optname) pairs with the host level and name of each
RecognisedPairs ==
    {<<LINUX_SOL_IP, LINUX_IP_HDRINCL, "IPPROTO_IP", "IP_HDRINCL">>,
     <<LINUX_SOL_SOCKET, LINUX_SO_REUSEADDR, "SOL_SOCKET", "SO_REUSEADDR">>,
     <<LINUX_SOL_SOCKET, LINUX_SO_ERROR, "SOL_SOCKET", "SO_ERROR">>,
     <<LINUX_SOL_SOCKET, LINUX_SO_BROADCAST, "SOL_SOCKET", "SO_BROADCAST">>,
     <<LINUX_SOL_SOCKET, LINUX_SO_SNDBUF, "SOL_SOCKET", "SO_SNDBUF">>,
     <<LINUX_SOL_SOCKET, LINUX_SO_RCVBUF, "SOL_SOCKET", "SO_RCVBUF">>,
     <<LINUX_SOL_SOCKET, LINUX_SO_KEEPALIVE, "SOL_SOCKET", "SO_KEEPALIVE">>,
     <<LINUX_SOL_SOCKET, LINUX_SO_LINGER, "SOL_SOCKET", "SO_LINGER">>,
     <<LINUX_SOL_TCP, LINUX_TCP_NODELAY, "IPPROTO_TCP", "TCP_NODELAY">>}

\* C22: for every (level, optname) pair that is not one of the recognised pairs
\* getsockopt and setsockopt return EINVAL without calling the host; for every
\* recognised pair the host is called with exactly the host level and name of
\* that pair.
C22_SockoptPairs ==
    \A o \in sc_out :
        sc_call.fn = "sockopt" =>
            IF \E p \in RecognisedPairs : p[1] = sc_call.level /\ p[2] = sc_call.optname
            THEN \A p \in RecognisedPairs :
                    (p[1] = sc_call.level /\ p[2] = sc_call.optname) =>
                        o.host = {[call |-> sc_call.call, level |-> p[3], name |-> p[4]]}
            ELSE o.r = -L_EINVAL /\ o.host = {}

(* ------------------------------ poll_status ----------------------------- *)
\* bit b (a power of two) is set in mask m
HasBit(m, b) == (m \div b) % 2 = 1

\* C23: poll_status returns a mask computed from the accumulated events after
\* draining the host: POLLIN is set iff READ or CLOSE is set, POLLHUP iff CLOSE
\* is set, POLLOUT iff WRITE is set, and no other bit is ever set; the call
\* clears no bit of shared.events.
C23_PollStatus ==
    [][\A p \in Threads :
          (Steps(p) /\ sop[p] = "poll") =>
              /\ Removed = {}
              /\ spc[p] = "we_or" =>
                    LET acc == events \cup sev[p]
                        m == sret'[p]
                    IN /\ HasBit(m, LINUX_POLLIN) <=> ({"FD_READ", "FD_CLOSE"} \cap acc # {})
                       /\ HasBit(m, LINUX_POLLHUP) <=> ("FD_CLOSE" \in acc)
                       /\ HasBit(m, LINUX_POLLOUT) <=> ("FD_WRITE" \in acc)
                       /\ m = (IF HasBit(m, LINUX_POLLIN) THEN LINUX_POLLIN ELSE 0)
                              + (IF HasBit(m, LINUX_POLLHUP) THEN LINUX_POLLHUP ELSE 0)
                              + (IF HasBit(m, LINUX_POLLOUT) THEN LINUX_POLLOUT ELSE 0)]_vars

\* a poll has returned POLLIN | POLLHUP | POLLOUT for a closed, writable socket
C23_Witness ==
    \E p \in Threads :
        /\ sop[p] = "poll"
        /\ spc[p] = "s_done"
        /\ sret[p] = LINUX_POLLIN + LINUX_POLLHUP + LINUX_POLLOUT
        /\ {"FD_CLOSE", "FD_WRITE"} \subseteq events
        /\ "FD_READ" \notin events

(* ------------------------- sys_futex: validation ------------------------ *)
L_ENOSYS == 38

FutexCmds == {"FUTEX_WAIT", "FUTEX_WAKE", "FUTEX_REQUEUE", "FUTEX_CMP_REQUEUE", "FUTEX_FD"}

\* futex.c:219-255. uaddr_ok and uaddr2_ok say whether the pointer passes
\* mm_check_read, timeout is "null", "bad" or "good". The result: the errno the
\* validation returns (0 when it returns none) and the function entered
sys_futex(cmd, uaddr_ok, uaddr2_ok, timeout) ==
    IF ~uaddr_ok THEN [r |-> -L_EACCES, entered |-> "none"]
    ELSE CASE cmd = "FUTEX_WAIT" ->
                 IF timeout = "bad" THEN [r |-> -L_EFAULT, entered |-> "none"]
                 ELSE [r |-> 0, entered |-> "futex_wait"]
           [] cmd = "FUTEX_WAKE" -> [r |-> 0, entered |-> "futex_wake"]
           [] cmd \in {"FUTEX_REQUEUE", "FUTEX_CMP_REQUEUE"} ->
                 IF ~uaddr2_ok THEN [r |-> -L_EACCES, entered |-> "none"]
                 ELSE [r |-> 0, entered |-> "futex_requeue"]
           [] OTHER -> [r |-> -L_ENOSYS, entered |-> "none"]

FutexArgInit ==
    /\ CallInitCommon
    /\ sc_call \in {[fn |-> "futex", cmd |-> c, uaddr_ok |-> a, uaddr2_ok |-> b,
                     timeout |-> tm] :
                       c \in FutexCmds, a \in BOOLEAN, b \in BOOLEAN,
                       tm \in {"null", "bad", "good"}}

FutexArgCall ==
    /\ sc_call.fn = "futex"
    /\ sc_out = {}
    /\ sc_out' = {sys_futex(sc_call.cmd, sc_call.uaddr_ok, sc_call.uaddr2_ok,
                            sc_call.timeout)}
    /\ CallUnchanged

FutexArgSpec == FutexArgInit /\ [][FutexArgCall]_vars

\* C24: every futex syscall whose uaddr fails read validation (and every
\* REQUEUE/CMP_REQUEUE whose uaddr2 fails it, and every WAIT whose non-null
\* timeout pointer fails it) returns EFAULT before dereferencing the pointer and
\* without changing any wait queue (no futex function is entered).
C24_FutexFault ==
    \A o \in sc_out :
        (/\ sc_call.fn = "futex"
         /\ \/ ~sc_call.uaddr_ok
            \/ sc_call.cmd \in {"FUTEX_REQUEUE", "FUTEX_CMP_REQUEUE"} /\ ~sc_call.uaddr2_ok
            \/ sc_call.cmd = "FUTEX_WAIT" /\ sc_call.timeout = "bad")
        => o.r = -L_EFAULT /\ o.entered = "none"

(* --------------------- sys_recvmsg: msghdr validation ------------------- *)
\* a msghdr as the validation sees it: the lengths, and for each pointer
\* whether mm_check_write accepts it
Msghdrs ==
    [hdr_ok : BOOLEAN, namelen : {0, 2}, name_ok : BOOLEAN,
     iovlen : 0..2, iov_ok : BOOLEAN, buf_ok : [1..2 -> BOOLEAN],
     controllen : 0..2, control_ok : BOOLEAN]

\* socket.c:570-587. The control buffer is tested with
\* msg_controllen & !mm_check_write(...): the bitwise and of the length with 0 or 1
mm_check_write_msghdr(msg) ==
    IF ~msg.hdr_ok THEN FALSE
    ELSE IF msg.namelen # 0 /\ ~msg.name_ok THEN FALSE
    ELSE IF msg.iovlen # 0 /\ ~msg.iov_ok THEN FALSE
    ELSE IF msg.controllen % 2 = 1 /\ ~msg.control_ok THEN FALSE
    ELSE \A i \in 1..msg.iovlen : msg.buf_ok[i]

\* socket.c:1520-1538: the result, and whether the recvmsg of the file was called
sys_recvmsg(msg) ==
    IF ~mm_check_write_msghdr(msg)
    THEN [r |-> -L_EFAULT, performed |-> FALSE]
    ELSE [r |-> 0, performed |-> TRUE]

RecvmsgArgInit ==
    /\ CallInitCommon
    /\ sc_call \in {[fn |-> "recvmsg", msg |-> mh] : mh \in Msghdrs}

RecvmsgArgCall ==
    /\ sc_call.fn = "recvmsg"
    /\ sc_out = {}
    /\ sc_out' = {sys_recvmsg(sc_call.msg)}
    /\ CallUnchanged

RecvmsgArgSpec == RecvmsgArgInit /\ [][RecvmsgArgCall]_vars

\* C25: recvmsg validates the control sub-buffer of the msghdr: for every
\* non-zero msg_controllen (odd or even), if msg_control fails write validation
\* the syscall returns EFAULT before any socket operation is performed; the
\* same holds for the name buffer, the iovec array and each iovec buffer.
C25_RecvmsgValidation ==
    \A o \in sc_out :
        (/\ sc_call.fn = "recvmsg"
         /\ \/ sc_call.msg.controllen # 0 /\ ~sc_call.msg.control_ok
            \/ sc_call.msg.namelen # 0 /\ ~sc_call.msg.name_ok
            \/ sc_call.msg.iovlen # 0 /\ ~sc_call.msg.iov_ok
            \/ \E i \in 1..sc_call.msg.iovlen : ~sc_call.msg.buf_ok[i])
        => o.r = -L_EFAULT /\ ~o.performed

(* --------------------------- post-fork child hook ----------------------- *)
\* socket.c:168-182: the process after socket_ensure_initialized; WSAStartup is
\* called when socket_inited is 0, and its failure ends the process
socket_ensure_initialized(p, startup_ok) ==
    IF ~p.alive \/ p.inited THEN p
    ELSE IF startup_ok THEN [p EXCEPT !.inited = TRUE]
    ELSE [p EXCEPT !.alive = FALSE]

\* socket.c:269-276: the hook for file i; recreated says whether WSASocketW
\* returns a socket for the fork_info. A failure is logged.
socket_after_fork_child(p, i, startup_ok, recreated) ==
    LET q == socket_ensure_initialized(p, startup_ok)
    IN IF ~q.alive THEN q
       ELSE [q EXCEPT !.socket[i] = IF recreated THEN "valid" ELSE "INVALID_SOCKET"]

RECURSIVE after_fork_child_hooks(_, _, _, _)
\* the hooks of files i.. in turn
after_fork_child_hooks(p, i, startup_ok, recreate) ==
    IF i > Len(recreate) THEN p
    ELSE after_fork_child_hooks(socket_after_fork_child(p, i, startup_ok, recreate[i]),
                                i + 1, startup_ok, recreate)

ForkInit ==
    /\ CallInitCommon
    /\ sc_call \in {[fn |-> "fork", inited |-> n, startup_ok |-> w, recreate |-> rc,
                     use |-> u] :
                       n \in BOOLEAN, w \in BOOLEAN,
                       rc \in [1..MaxForkFiles -> BOOLEAN], u \in 1..MaxForkFiles}

\* the child runs the hook of every inherited socket file
ForkChildHooks ==
    /\ sc_call.fn = "fork"
    /\ sc_out = {}
    /\ sc_out' = {after_fork_child_hooks(
                     [alive |-> TRUE, inited |-> sc_call.inited,
                      socket |-> [i \in 1..MaxForkFiles |-> "parent"], used |-> {}],
                     1, sc_call.startup_ok, sc_call.recreate)}
    /\ CallUnchanged

\* the child, running, makes a socket call on file use: the host call gets the
\* handle the hook has stored
ForkChildSocketOp ==
    /\ sc_call.fn = "fork"
    /\ \E p \in sc_out :
          /\ p.alive
          /\ p.used = {}
          /\ sc_out' = {[p EXCEPT !.used = {p.socket[sc_call.use]}]}
    /\ CallUnchanged

ForkNext == ForkChildHooks \/ ForkChildSocketOp

ForkSpec == ForkInit /\ [][ForkNext]_vars

\* C26: if recreating the host socket from the fork cookie fails in the
\* post-fork child hook, the emulated child process is terminated (as it is when
\* WSAStartup fails); no later socket operation runs in the child on an invalid
\* socket handle.
C26_ForkRecreateFailure ==
    \A p \in sc_out :
        sc_call.fn = "fork" =>
            /\ ~(p.alive /\ \E i \in 1..MaxForkFiles : ~sc_call.recreate[i])
            /\ "INVALID_SOCKET" \notin p.used

(* ------------------- UNIX-family bind and connect bridge ----------------- *)
\* the errors of vfs_openat: the file exists (O_CREAT | O_EXCL), no such file
L_EEXIST == 17
L_ENOENT == 2

DigitChars == <<"0", "1", "2", "3", "4", "5", "6", "7", "8", "9">>
IsDigit(c) == \E d \in 1..Len(DigitChars) : DigitChars[d] = c
DigitVal(c) == (CHOOSE d \in 1..Len(DigitChars) : DigitChars[d] = c) - 1

RECURSIVE ksprintf_d(_)
\* ksprintf(buf, "%d", n) for n >= 0: the decimal digits of n
ksprintf_d(n) ==
    IF n < Len(DigitChars) THEN <<DigitChars[n + 1]>>
    ELSE Append(ksprintf_d(n \div Len(DigitChars)), DigitChars[(n % Len(DigitChars)) + 1])

RECURSIVE katoi_value(_, _)
katoi_value(buf, acc) ==
    IF buf = <<>> THEN acc
    ELSE katoi_value(Tail(buf), acc * Len(DigitChars) + DigitVal(Head(buf)))

\* katoi(buf, &port): whether buf is a decimal number, and its value
katoi(buf) ==
    IF buf # <<>> /\ \A i \in 1..Len(buf) : IsDigit(buf[i])
    THEN [ok |-> TRUE, value |-> katoi_value(buf, 0)]
    ELSE [ok |-> FALSE, value |-> 0]

\* htons and ntohs on a little-endian host: the two bytes of a 16-bit value swapped
Swap16(x) == (x % 256) * 256 + (x \div 256)

\* the rendezvous file: absent, a special file without the UNIX header, or the
\* header followed by content
NoFile == [exists |-> FALSE, header |-> FALSE, content |-> <<>>]
EmptyFile == [exists |-> TRUE, header |-> FALSE, content |-> <<>>]

\* the port published in network byte order as the host reports it
unix_bind_content_raw(sin_port) == ksprintf_d(sin_port)

\* socket.c:715-719: the content bind publishes for the sin_port that
\* getsockname reports
unix_bind_content(sin_port) == ksprintf_d(Swap16(sin_port))

\* socket.c:648-735 on a UNIX-family socket with a sockaddr_un. abstract says
\* whether sun_path[0] is 0, file is the file at the path, bind_ok whether the
\* host bind to loopback:0 succeeds, sin_port the port getsockname then reports.
\* The result: r and the file at the path
unix_bind(abstract, file, bind_ok, sin_port) ==
    IF abstract THEN [r |-> -L_EINVAL, file |-> file]
    ELSE IF file.exists THEN [r |-> -L_EEXIST, file |-> file]
    ELSE IF ~bind_ok THEN [r |-> -L_EADDRINUSE, file |-> EmptyFile]
    ELSE [r |-> 0,
          file |-> [exists |-> TRUE, header |-> TRUE,
                    content |-> unix_bind_content(sin_port)]]

\* socket.c:737-815 on a UNIX-family socket with a sockaddr_un: r, and the
\* sin_port of the loopback address handed to the host connect (0: no host
\* connect is attempted)
unix_connect(abstract, file) ==
    IF abstract THEN [r |-> -L_EINVAL, sin_port |-> 0]
    ELSE IF ~file.exists THEN [r |-> -L_ENOENT, sin_port |-> 0]
    ELSE IF ~file.header \/ file.content = <<>>
    THEN [r |-> -L_ECONNREFUSED, sin_port |-> 0]
    ELSE IF ~katoi(file.content).ok THEN [r |-> -L_ECONNREFUSED, sin_port |-> 0]
    ELSE [r |-> 0, sin_port |-> Swap16(katoi(file.content).value)]

\* ports the host assigns (network byte order), and contents of files that no
\* bind of this layer has written
HostPorts == {1, 256, 258, 20480, 4135, 65535}
ForeignFiles ==
    {EmptyFile}
    \cup {[exists |-> TRUE, header |-> TRUE, content |-> c] :
             c \in {<<>>, <<"x">>, <<"8", "0", "x">>, <<"-", "1">>}}

UnixInit ==
    /\ CallInitCommon
    /\ sc_call \in {[fn |-> "unix", bind_abstract |-> ba, conn_abstract |-> ca,
                     bind_ok |-> bo, sin_port |-> q] :
                       ba \in BOOLEAN, ca \in BOOLEAN, bo \in BOOLEAN, q \in HostPorts}

\* a server binds a UNIX-family socket to the path
UnixBind ==
    /\ sc_call.fn = "unix"
    /\ sc_out = {}
    /\ LET b == unix_bind(sc_call.bind_abstract, NoFile, sc_call.bind_ok, sc_call.sin_port)
       IN sc_out' = {[bind_r |-> b.r, file |-> b.file, bound |-> TRUE, connected |-> FALSE,
                      conn_r |-> 0, sin_port |-> 0]}
    /\ CallUnchanged

\* no bind of this layer: the path names some other file
UnixForeignFile ==
    /\ sc_call.fn = "unix"
    /\ sc_out = {}
    /\ \E f \in ForeignFiles :
          sc_out' = {[bind_r |-> 0, file |-> f, bound |-> FALSE, connected |-> FALSE,
                      conn_r |-> 0, sin_port |-> 0]}
    /\ CallUnchanged

\* a client connects a UNIX-family socket to the path
UnixConnect ==
    /\ sc_call.fn = "unix"
    /\ \E o \in sc_out :
          /\ ~o.connected
          /\ LET c == unix_connect(sc_call.conn_abstract, o.file)
             IN sc_out' = {[o EXCEPT !.connected = TRUE, !.conn_r = c.r,
                                     !.sin_port = c.sin_port]}
    /\ CallUnchanged

UnixNext == UnixBind \/ UnixForeignFile \/ UnixConnect

UnixSpec == UnixInit /\ [][UnixNext]_vars

\* C27: UNIX-domain bridge round trip. For every port P that a successful bind
\* on a UNIX-family socket obtains from the host and publishes in the
\* rendezvous file, a connect on a UNIX-family socket to the same path targets
\* loopback port P; if the file carries no UNIX header or its content is not a
\* decimal number, connect returns ECONNREFUSED without attempting a host
\* connect; a sockaddr whose first path byte is zero returns EINVAL from both
\* bind and connect.
C27_UnixBridge ==
    \A o \in sc_out :
        sc_call.fn = "unix" =>
            /\ (o.bound /\ sc_call.bind_abstract) => o.bind_r = -L_EINVAL
            /\ (o.connected /\ sc_call.conn_abstract) =>
                   o.conn_r = -L_EINVAL /\ o.sin_port = 0
            /\ (o.connected /\ ~sc_call.conn_abstract) =>
                   /\ (o.bound /\ o.bind_r = 0) =>
                          o.conn_r = 0 /\ o.sin_port = sc_call.sin_port
                   /\ (o.file.exists /\ (~o.file.header \/ ~katoi(o.file.content).ok)) =>
                          o.conn_r = -L_ECONNREFUSED /\ o.sin_port = 0

\* a connect has targeted the port a bind has published, a port whose two bytes
\* differ
C27_Witness ==
    \E o \in sc_out :
        /\ o.bound /\ o.bind_r = 0
        /\ o.connected /\ o.conn_r = 0
        /\ o.file.content = <<"8", "0">>
        /\ o.sin_port = 20480

(* -------------------------- translate_socket_error ---------------------- *)
\* host error codes: small system codes, and the range of the socket errors
ErrInputs == (0..(WSA_NOT_ENOUGH_MEMORY + 4)) \cup (WSAEINTR..(WSAECANCELLED + 1))

TranslateInit ==
    /\ CallInitCommon
    /\ sc_call \in {[fn |-> "translate", error |-> e] : e \in ErrInputs}

TranslateCall ==
    /\ sc_call.fn = "translate"
    /\ sc_out = {}
    /\ sc_out' = {[r |-> translate_socket_error(sc_call.error)]}
    /\ CallUnchanged

TranslateSpec == TranslateInit /\ [][TranslateCall]_vars

\* the Linux errno specified for each recognised host error kind: the errno of
\* the same name, but ENOMEM for NOT_ENOUGH_MEMORY, EPROTONOSUPPORT for
\* SOCKTNOSUPPORT and ETIMEDOUT for HOSTDOWN
SpecifiedErrno ==
    {<<WSA_NOT_ENOUGH_MEMORY, L_ENOMEM>>, <<WSAEINTR, L_EINTR>>,
     <<WSAEBADF, L_EBADF>>, <<WSAEACCES, L_EACCES>>,
     <<WSAEFAULT, L_EFAULT>>, <<WSAEINVAL, L_EINVAL>>,
     <<WSAEMFILE, L_EMFILE>>, <<WSAEWOULDBLOCK, L_EWOULDBLOCK>>,
     <<WSAEALREADY, L_EALREADY>>, <<WSAENOTSOCK, L_ENOTSOCK>>,
     <<WSAEDESTADDRREQ, L_EDESTADDRREQ>>, <<WSAEMSGSIZE, L_EMSGSIZE>>,
     <<WSAEPROTOTYPE, L_EPROTOTYPE>>, <<WSAENOPROTOOPT, L_ENOPROTOOPT>>,
     <<WSAEPROTONOSUPPORT, L_EPROTONOSUPPORT>>, <<WSAESOCKTNOSUPPORT, L_EPROTONOSUPPORT>>,
     <<WSAEOPNOTSUPP, L_EOPNOTSUPP>>, <<WSAEPFNOSUPPORT, L_EPFNOSUPPORT>>,
     <<WSAEAFNOSUPPORT, L_EAFNOSUPPORT>>, <<WSAEADDRINUSE, L_EADDRINUSE>>,
     <<WSAEADDRNOTAVAIL, L_EADDRNOTAVAIL>>, <<WSAENETDOWN, L_ENETDOWN>>,
     <<WSAENETUNREACH, L_ENETUNREACH>>, <<WSAENETRESET, L_ENETRESET>>,
     <<WSAECONNABORTED, L_ECONNABORTED>>, <<WSAECONNRESET, L_ECONNRESET>>,
     <<WSAENOBUFS, L_ENOBUFS>>, <<WSAEISCONN, L_EISCONN>>,
     <<WSAENOTCONN, L_ENOTCONN>>, <<WSAETIMEDOUT, L_ETIMEDOUT>>,
     <<WSAECONNREFUSED, L_ECONNREFUSED>>, <<WSAELOOP, L_ELOOP>>,
     <<WSAENAMETOOLONG, L_ENAMETOOLONG>>, <<WSAEHOSTDOWN, L_ETIMEDOUT>>,
     <<WSAEHOSTUNREACH, L_EHOSTUNREACH>>, <<WSAENOTEMPTY, L_ENOTEMPTY>>,
     <<WSAECANCELLED, L_ECANCELED>>}

\* C28: translate_socket_error maps every recognised host socket error kind to
\* its specified Linux errno and every other code to EIO; the result is 0 only
\* for input 0 and is otherwise a negative errno.
C28_TranslateError ==
    \A o \in sc_out :
        sc_call.fn = "translate" =>
            /\ \A pr \in SpecifiedErrno : pr[1] = sc_call.error => o.r = -pr[2]
            /\ (sc_call.error # 0 /\ \A pr \in SpecifiedErrno : pr[1] # sc_call.error)
                  => o.r = -L_EIO
            /\ o.r = 0 <=> sc_call.error = 0
            /\ o.r <= 0

\* a dead peer (HOSTDOWN) has been translated to ETIMEDOUT
C28_Witness ==
    /\ sc_call.fn = "translate"
    /\ sc_call.error = WSAEHOSTDOWN
    /\ \E o \in sc_out : o.r = -L_ETIMEDOUT

(* ------------------------------ sys_socketcall -------------------------- *)
\* the call numbers of the multiplexer
SYS_SOCKET == 1
SYS_BIND == 2
SYS_CONNECT == 3
SYS_LISTEN == 4
SYS_ACCEPT == 5
SYS_GETSOCKNAME == 6
SYS_GETPEERNAME == 7
SYS_SEND == 9
SYS_RECV == 10
SYS_SENDTO == 11
SYS_RECVFROM == 12
SYS_SHUTDOWN == 13
SYS_SETSOCKOPT == 14
SYS_GETSOCKOPT == 15
SYS_SENDMSG == 16
SYS_RECVMSG == 17
SYS_ACCEPT4 == 18
SYS_SENDMMSG == 20

\* socket.c:1588-1593: the number of argument words of each call, nargs[1..20]
nargs == <<3, 3, 3, 2, 3, 3, 3, 4, 4, 4, 6, 6, 2, 5, 5, 3, 3, 4, 5, 4>>

\* the switch with accept4 given the arguments of accept
socketcall_dispatch_accept(call, args) ==
      CASE call = SYS_SOCKET -> [sys |-> "sys_socket", args |-> <<args[1], args[2], args[3]>>]
        [] call = SYS_BIND -> [sys |-> "sys_bind", args |-> <<args[1], args[2], args[3]>>]
        [] call = SYS_CONNECT -> [sys |-> "sys_connect", args |-> <<args[1], args[2], args[3]>>]
        [] call = SYS_LISTEN -> [sys |-> "sys_listen", args |-> <<args[1], args[2]>>]
        [] call = SYS_ACCEPT -> [sys |-> "sys_accept", args |-> <<args[1], args[2], args[3]>>]
        [] call = SYS_GETSOCKNAME -> [sys |-> "sys_getsockname", args |-> <<args[1], args[2], args[3]>>]
        [] call = SYS_GETPEERNAME -> [sys |-> "sys_getpeername", args |-> <<args[1], args[2], args[3]>>]
        [] call = SYS_SEND -> [sys |-> "sys_send", args |-> <<args[1], args[2], args[3], args[4]>>]
        [] call = SYS_RECV -> [sys |-> "sys_recv", args |-> <<args[1], args[2], args[3], args[4]>>]
        [] call = SYS_SENDTO -> [sys |-> "sys_sendto", args |-> <<args[1], args[2], args[3], args[4], args[5], args[6]>>]
        [] call = SYS_RECVFROM -> [sys |-> "sys_recvfrom", args |-> <<args[1], args[2], args[3], args[4], args[5], args[6]>>]
        [] call = SYS_SHUTDOWN -> [sys |-> "sys_shutdown", args |-> <<args[1], args[2]>>]
        [] call = SYS_SETSOCKOPT -> [sys |-> "sys_setsockopt", args |-> <<args[1], args[2], args[3], args[4], args[5]>>]
        [] call = SYS_GETSOCKOPT -> [sys |-> "sys_getsockopt", args |-> <<args[1], args[2], args[3], args[4], args[5]>>]
        [] call = SYS_SENDMSG -> [sys |-> "sys_sendmsg", args |-> <<args[1], args[2], args[3]>>]
        [] call = SYS_RECVMSG -> [sys |-> "sys_recvmsg", args |-> <<args[1], args[2], args[3]>>]
        [] call = SYS_ACCEPT4 -> [sys |-> "sys_accept4", args |-> <<args[1], args[2], args[3]>>]
        [] call = SYS_SENDMMSG -> [sys |-> "sys_sendmmsg", args |-> <<args[1], args[2], args[3], args[4]>>]
        [] OTHER -> [sys |-> "none", args |-> <<>>]

\* socket.c:1601-1662: the direct syscall each case of the switch calls and the
\* words of the argument vector it passes, in order
socketcall_dispatch(call, args) ==
      CASE call = SYS_SOCKET -> [sys |-> "sys_socket", args |-> <<args[1], args[2], args[3]>>]
        [] call = SYS_BIND -> [sys |-> "sys_bind", args |-> <<args[1], args[2], args[3]>>]
        [] call = SYS_CONNECT -> [sys |-> "sys_connect", args |-> <<args[1], args[2], args[3]>>]
        [] call = SYS_LISTEN -> [sys |-> "sys_listen", args |-> <<args[1], args[2]>>]
        [] call = SYS_ACCEPT -> [sys |-> "sys_accept", args |-> <<args[1], args[2], args[3]>>]
        [] call = SYS_GETSOCKNAME -> [sys |-> "sys_getsockname", args |-> <<args[1], args[2], args[3]>>]
        [] call = SYS_GETPEERNAME -> [sys |-> "sys_getpeername", args |-> <<args[1], args[2], args[3]>>]
        [] call = SYS_SEND -> [sys |-> "sys_send", args |-> <<args[1], args[2], args[3], args[4]>>]
        [] call = SYS_RECV -> [sys |-> "sys_recv", args |-> <<args[1], args[2], args[3], args[4]>>]
        [] call = SYS_SENDTO -> [sys |-> "sys_sendto", args |-> <<args[1], args[2], args[3], args[4], args[5], args[6]>>]
        [] call = SYS_RECVFROM -> [sys |-> "sys_recvfrom", args |-> <<args[1], args[2], args[3], args[4], args[5], args[6]>>]
        [] call = SYS_SHUTDOWN -> [sys |-> "sys_shutdown", args |-> <<args[1], args[2]>>]
        [] call = SYS_SETSOCKOPT -> [sys |-> "sys_setsockopt", args |-> <<args[1], args[2], args[3], args[4], args[5]>>]
        [] call = SYS_GETSOCKOPT -> [sys |-> "sys_getsockopt", args |-> <<args[1], args[2], args[3], args[4], args[5]>>]
        [] call = SYS_SENDMSG -> [sys |-> "sys_sendmsg", args |-> <<args[1], args[2], args[3]>>]
        [] call = SYS_RECVMSG -> [sys |-> "sys_recvmsg", args |-> <<args[1], args[2], args[3]>>]
        [] call = SYS_ACCEPT4 -> [sys |-> "sys_accept4", args |-> <<args[1], args[2], args[3], args[4]>>]
        [] call = SYS_SENDMMSG -> [sys |-> "sys_sendmmsg", args |-> <<args[1], args[2], args[3], args[4]>>]
        [] OTHER -> [sys |-> "none", args |-> <<>>]

\* socket.c:1595-1663. readable is the number of words of the argument vector
\* that mm_check_read accepts. The result: r when the multiplexer itself
\* returns, else the direct syscall called and its arguments
sys_socketcall(call, args, readable) ==
    IF call < 1 \/ call > SYS_SENDMMSG
    THEN [r |-> -L_EINVAL, sys |-> "none", args |-> <<>>]
    ELSE IF nargs[call] > readable
    THEN [r |-> -L_EFAULT, sys |-> "none", args |-> <<>>]
    ELSE LET d == socketcall_dispatch(call, args)
         IN IF d.sys = "none" THEN [r |-> -L_EINVAL, sys |-> "none", args |-> <<>>]
            ELSE [r |-> 0, sys |-> d.sys, args |-> d.args]

\* the number of parameters of each direct syscall (DEFINE_SYSCALLn)
SyscallArity(name) ==
      CASE name = "sys_accept" -> 3
        [] name = "sys_accept4" -> 4
        [] name = "sys_bind" -> 3
        [] name = "sys_connect" -> 3
        [] name = "sys_getpeername" -> 3
        [] name = "sys_getsockname" -> 3
        [] name = "sys_getsockopt" -> 5
        [] name = "sys_listen" -> 2
        [] name = "sys_recv" -> 4
        [] name = "sys_recvfrom" -> 6
        [] name = "sys_recvmsg" -> 3
        [] name = "sys_send" -> 4
        [] name = "sys_sendmmsg" -> 4
        [] name = "sys_sendmsg" -> 3
        [] name = "sys_sendto" -> 6
        [] name = "sys_setsockopt" -> 5
        [] name = "sys_shutdown" -> 2
        [] name = "sys_socket" -> 3

\* argument vectors of six words, and call numbers around 1..20
MaxArgs == 6
ArgWords == [1..MaxArgs -> {7, 9}]
CallNumbers == (0 - 1)..(SYS_SENDMMSG + 2)

SocketcallInit ==
    /\ CallInitCommon
    /\ sc_call \in {[fn |-> "socketcall", call |-> c, args |-> a, readable |-> n] :
                      c \in CallNumbers, a \in ArgWords, n \in 0..MaxArgs}

SocketcallCall ==
    /\ sc_call.fn = "socketcall"
    /\ sc_out = {}
    /\ sc_out' = {sys_socketcall(sc_call.call, sc_call.args, sc_call.readable)}
    /\ CallUnchanged

SocketcallSpec == SocketcallInit /\ [][SocketcallCall]_vars

\* the direct syscall of each call number of the claim
DirectSyscall ==
    {<<SYS_SOCKET, "sys_socket">>,
     <<SYS_BIND, "sys_bind">>,
     <<SYS_CONNECT, "sys_connect">>,
     <<SYS_LISTEN, "sys_listen">>,
     <<SYS_ACCEPT, "sys_accept">>,
     <<SYS_GETSOCKNAME, "sys_getsockname">>,
     <<SYS_GETPEERNAME, "sys_getpeername">>,
     <<SYS_SEND, "sys_send">>,
     <<SYS_RECV, "sys_recv">>,
     <<SYS_SENDTO, "sys_sendto">>,
     <<SYS_RECVFROM, "sys_recvfrom">>,
     <<SYS_SHUTDOWN, "sys_shutdown">>,
     <<SYS_SETSOCKOPT, "sys_setsockopt">>,
     <<SYS_GETSOCKOPT, "sys_getsockopt">>,
     <<SYS_SENDMSG, "sys_sendmsg">>,
     <<SYS_RECVMSG, "sys_recvmsg">>,
     <<SYS_ACCEPT4, "sys_accept4">>,
     <<SYS_SENDMMSG, "sys_sendmmsg">>}

\* C29: the legacy multiplexer is equivalent to the direct syscalls. For every
\* call number of the eighteen socket calls with a readable argument vector,
\* socketcall(call, args) is the direct syscall on the unpacked arguments (the
\* first words of the vector, as many as the syscall has parameters, all of them
\* validated); a call number outside 1..20 returns EINVAL and an unreadable
\* argument vector returns EFAULT, both without calling any syscall.
C29_SocketcallEquivalent ==
    \A o \in sc_out :
        sc_call.fn = "socketcall" =>
            /\ (sc_call.call < 1 \/ sc_call.call > 20) =>
                   o.r = -L_EINVAL /\ o.sys = "none"
            /\ (sc_call.call \in 1..20 /\ nargs[sc_call.call] > sc_call.readable) =>
                   o.r = -L_EFAULT /\ o.sys = "none"
            /\ \A d \in DirectSyscall :
                  (d[1] = sc_call.call /\ nargs[sc_call.call] <= sc_call.readable) =>
                      /\ o.sys = d[2]
                      /\ o.args = SubSeq(sc_call.args, 1, SyscallArity(d[2]))
                      /\ SyscallArity(d[2]) <= nargs[sc_call.call]

\* accept4 has been called through the multiplexer with its four arguments
C29_Witness ==
    /\ sc_call.fn = "socketcall"
    /\ sc_call.call = SYS_ACCEPT4
    /\ \E o \in sc_out : o.sys = "sys_accept4" /\ Len(o.args) = 4

(* -------------------------- futex WAIT: mismatch ------------------------ *)
\* C30: futex WAIT(addr, expected, timeout) called while *addr differs from
\* expected returns 0 immediately: it does not enqueue a wait block, does not
\* block, and leaves the bucket unlocked and its wait list unchanged.
C30_WaitMismatchReturnsZero ==
    [][\A t \in Threads :
          /\ (pc[t] = "w_body" /\ pc'[t] # "w_body" /\ mem[addr[t]] # val[t]) =>
                /\ UNCHANGED <<wait_list, blk_addr, wait_event>>
                /\ pc'[t] = "w_mm_unlock"
          /\ (pc[t] = "w_mm_unlock" /\ pc'[t] # "w_mm_unlock") =>
                /\ UNCHANGED <<wait_list, blk_addr, wait_event>>
                /\ spin_lock'[futex_hash(addr[t])] = 0
                /\ pc'[t] = "done"
                /\ ret'[t] = 0]_vars

\* a WAIT that found another value is returning while a waiter is queued in
\* its bucket
C30_Witness ==
    \E t \in Threads :
        /\ pc[t] = "w_mm_unlock"
        /\ wait_list[futex_hash(addr[t])] # <<>>

(* ====================================================================== *)
(*                  bucket locks: who holds what, and when                *)
(* ====================================================================== *)
\* The buckets thread t has locked with lock_bucket and not yet passed to
\* unlock_bucket, read off the position of t in futex_wait (futex.c:94-122) or
\* futex_wake_requeue (futex.c:140-206).
HeldBuckets(t) ==
    IF pc[t] \in {"w_body", "w_mm_unlock", "w_unlock", "w_recheck", "w_unlock2"}
    THEN {futex_hash(addr[t])}
    ELSE IF pc[t] = "q_lock2"
    THEN {FirstBucket(t)}
    ELSE IF pc[t] \in {"q_body", "q_mm_unlock1", "q_unlock1"}
    THEN IF TwoBuckets(t)
         THEN {FirstBucket(t), SecondBucket(t)}
         ELSE {futex_hash(addr[t])}
    ELSE IF pc[t] \in {"q_mm_unlock2", "q_unlock2"}
    THEN {futex_hash(addr2[t])} \ {futex_hash(addr[t])}
    ELSE {}

\* C31: bucket lock discipline. WAIT and WAKE hold at most one bucket lock at
\* any time; REQUEUE and CMP_REQUEUE hold at most two, only one when both
\* addresses hash to the same bucket, and a thread that holds one bucket and is
\* about to lock the second holds the lower one, whichever address is the source.
C31_LockDiscipline ==
    \A t \in Threads :
        /\ op[t] \in {"WAIT", "WAKE"} => Cardinality(HeldBuckets(t)) <= 1
        /\ op[t] \in {"REQUEUE", "CMP_REQUEUE"} => Cardinality(HeldBuckets(t)) <= 2
        /\ (op[t] \in {"REQUEUE", "CMP_REQUEUE"} /\ ~TwoBuckets(t))
              => Cardinality(HeldBuckets(t)) <= 1
        /\ pc[t] = "q_lock2" => \A h \in HeldBuckets(t) : h < SecondBucket(t)

\* a requeue whose source lies in the higher bucket holds both buckets
C31_Witness ==
    \E t \in Threads :
        /\ pc[t] = "q_body"
        /\ op[t] \in {"REQUEUE", "CMP_REQUEUE"}
        /\ futex_hash(addr[t]) > futex_hash(addr2[t])
        /\ Cardinality(HeldBuckets(t)) = 2
        /\ \A b \in HeldBuckets(t) : spin_lock[b] = 1

(* --------------------- claims: requeued waiters ----------------------- *)
\* how often node u occurs in list
Occurrences(list, u) == Cardinality({i \in 1..Len(list) : list[i] = u})

\* C32: after REQUEUE(a, n, b) (or a CMP_REQUEUE that passed its comparison)
\* with a # b, the waiters that were queued on a are, in list order, the first
\* n woken (all of them for a negative n) and the others queued exactly once in
\* the bucket of b, and in no other bucket, with address b, also when a and b
\* share a bucket; no waiter is left queued on a. A WAKE walks the bucket of its
\* address and unlinks only blocks of that address, so a later WAKE(b, k) finds
\* the moved waiters and a later WAKE(a, k) wakes none of them.
C32_RequeueMoves ==
    [][\A t \in Threads :
          /\ ((LoopStep(t, "REQUEUE") \/ LoopStep(t, "CMP_REQUEUE"))
                 /\ addr[t] # addr2[t]) =>
                LET a == addr[t]
                    b == addr2[t]
                    q == QueueOn(wait_list, blk_addr, a)
                    k == IF val[t] < 0 THEN Len(q) ELSE Min(val[t], Len(q))
                IN  /\ Unlinked = {q[i] : i \in 1..k}
                    /\ \A i \in (k + 1)..Len(q) :
                          /\ blk_addr'[q[i]] = b
                          /\ Occurrences(wait_list'[futex_hash(b)], q[i]) = 1
                          /\ \A c \in Buckets \ {futex_hash(b)} :
                                ~InList(wait_list'[c], q[i])
                    /\ \A u \in Threads : IsLinked(wait_list', u) => blk_addr'[u] # a
          /\ LoopStep(t, "WAKE") =>
                /\ \A u \in Unlinked : blk_addr[u] = addr[t]
                /\ \A u \in Threads :
                      (IsLinked(wait_list, u) /\ blk_addr[u] = addr[t])
                          => InList(wait_list[futex_hash(addr[t])], u)]_vars

\* a REQUEUE between two addresses of one bucket has finished its loop: a
\* thread sleeping in WAIT(a) has its block queued with address b
C32_Witness ==
    \E t, u \in Threads :
        /\ pc[t] = "q_unlock1" /\ op[t] = "REQUEUE"
        /\ addr[t] # addr2[t]
        /\ futex_hash(addr[t]) = futex_hash(addr2[t])
        /\ pc[u] = "w_sleep" /\ addr[u] = addr[t]
        /\ blk_addr[u] = addr2[t]
        /\ InList(wait_list[futex_hash(addr2[t])], u)

(* ------------------ scenario: one timed, undisturbed WAIT ------------- *)
\* Thread 1 calls WAIT(x, 0, finite timeout) while *x = 0. No thread stores to
\* x or names x in a WAKE or REQUEUE, and no signal is sent to thread 1. The
\* other threads call WAIT, REQUEUE and CMP_REQUEUE on the other addresses, one
\* of which shares the bucket of x when x is 4 or 4 + 256.
InitTimeout ==
    /\ InitCommon
    /\ SockInitCommon
    /\ FileInitCommon
    /\ nonblock = FALSE
    /\ mode = [t \in Threads |->
                 IF t = 1 THEN "T0" ELSE IF t = 2 THEN "waiter" ELSE "requeuer"]
    /\ avoid \in Addrs

\* sys_futex FUTEX_WAIT with a timeout (futex.c:226-232)
TWait(t) ==
    /\ mode[t] = "T0"
    /\ BeginWait(t, avoid, mem[avoid], TRUE)
    /\ mode' = [mode EXCEPT ![t] = "T1"]
    /\ UNCHANGED ncalls

NextTimeout ==
    \/ NextLocks
    \/ \E t \in Threads : TWait(t)

\* the waits of signal_wait with a finite timeout end, and a scheduled thread
\* takes its next step
TimeoutFairness == \A t \in Threads : WF_vars(Progress(t) \/ TWait(t))

TimeoutSpec == InitTimeout /\ [][NextTimeout]_vars /\ TimeoutFairness

\* thread t takes a step of its timed WAIT
TimedStep(t) == mode[t] = "T1" /\ op[t] = "WAIT" /\ pc'[t] # pc[t]

\* C33: a WAIT with a finite timeout, called while *addr equals the expected
\* value, with no WAKE or REQUEUE on its address and no signal, eventually
\* returns ETIMEDOUT. Its steps change no wait list except by linking and
\* unlinking its own block, and leave every bucket lock they found free as it was
\* or free; on return its block is linked nowhere, and a bucket that no other
\* call uses is unlocked and its list is empty as before the call.
C33_TimedWait ==
    /\ \A t \in Threads :
          (mode[t] = "T1" /\ pc[t] = "w_lock")
              ~> (pc[t] = "done" /\ ret[t] = -L_ETIMEDOUT)
    /\ [](\A t \in Threads :
             (mode[t] = "T1" /\ pc[t] = "done") =>
                /\ ret[t] = -L_ETIMEDOUT
                /\ ~Linked(t)
                /\ HeldBuckets(t) = {}
                /\ (\A a \in FreeAddrs : futex_hash(a) # futex_hash(avoid)) =>
                      /\ spin_lock[futex_hash(avoid)] = 0
                      /\ wait_list[futex_hash(avoid)] = <<>>)
    /\ [][\A t \in Threads :
             TimedStep(t) =>
                /\ \A b \in Buckets :
                      list_remove(wait_list'[b], t) = list_remove(wait_list[b], t)
                /\ \A b \in Buckets \ {futex_hash(avoid)} :
                      spin_lock'[b] = spin_lock[b]]_vars

\* the timed WAIT is returning ETIMEDOUT while a waiter of another address is
\* queued in its bucket
C33_Witness ==
    \E t, u \in Threads :
        /\ mode[t] = "T1" /\ pc[t] = "done" /\ ret[t] = -L_ETIMEDOUT
        /\ u # t
        /\ InList(wait_list[futex_hash(avoid)], u)

(* ------------- scenario: receives on a non-blocking socket ------------ *)
\* One thread receives (recvfrom, recvmsg, read) on a socket with O_NONBLOCK;
\* the others poll it. The host records data, buffer space and the peer's close.
RecvInit ==
    /\ InitCommon
    /\ mode = [t \in Threads |-> IF t = 1 THEN "receiver" ELSE "poller"]
    /\ avoid = NULL
    /\ SockInitCommon
    /\ FileInitCommon
    /\ nonblock = TRUE

RecvNext ==
    \/ HostRecord
    \/ \E t \in Threads : SockStart(t)
    \/ \E t \in Threads : PollStart(t)
    \/ \E t \in Threads : AcquireMutex(t)
    \/ \E t \in Threads : UpdateEnum(t)
    \/ \E t \in Threads : UpdateOr(t)
    \/ \E t \in Threads : RecvClear(t)
    \/ \E t \in Threads : HostOpSuccess(t)
    \/ \E t \in Threads : HostOpWouldBlock(t)
    \/ \E t \in Threads : HostOpError(t)
    \/ \E t \in Threads : PostClear(t)
    \/ \E t \in Threads : ReleaseMutex(t)
    \/ \E t \in Threads : SockExit(t)

\* a fair scheduler; the host is free to stay silent
RecvSpec == RecvInit /\ [][RecvNext]_vars /\ SockFairness

(* ------------------ claims: non-blocking receive loop ----------------- *)
\* C34: a non-blocking recv / recvfrom / recvmsg (O_NONBLOCK or MSG_DONTWAIT),
\* with or without MSG_PEEK, returns after finitely many iterations of its
\* retry loop, whatever bits earlier operations left in shared.events: once it
\* has the socket mutex and issues the host receive it eventually returns, and
\* a call whose last host receive reported WOULDBLOCK returns EWOULDBLOCK.
C34_NonBlockingRecvReturns ==
    /\ \A t \in Threads :
          (spc[t] = "h_op" /\ sop[t] \in RecvOps /\ NonBlocking(t))
              ~> (spc[t] = "s_done")
    /\ [](\A t \in Threads :
             (spc[t] = "s_done" /\ sop[t] \in RecvOps /\ NonBlocking(t)
                 /\ wsa_error[t] = WSAEWOULDBLOCK /\ ~interrupted[t])
                => sret[t] \in {-L_EWOULDBLOCK} \cup {0, 1})

(* ------------------- claims: bucket lock ownership -------------------- *)
\* the threads that hold bucket b
Holders(b) == {t \in Threads : b \in HeldBuckets(t)}

\* C35: a bucket spinlock is held by at most one thread at a time, is set while
\* a thread holds it, and is set to unlocked only by a step of the thread that
\* holds it, on every exit path of WAIT, WAKE, REQUEUE and CMP_REQUEUE, the
\* value-mismatch exit of a CMP_REQUEUE within one bucket included.
C35_LockOwnership ==
    /\ [](\A b \in Buckets :
             /\ Cardinality(Holders(b)) <= 1
             /\ Holders(b) # {} => spin_lock[b] = 1)
    /\ [][\A b \in Buckets :
             (spin_lock[b] = 1 /\ spin_lock'[b] = 0) =>
                \E t \in Holders(b) : pc'[t] # pc[t]]_vars

\* C36: every insertion into, removal from or traversal of a bucket's wait list
\* is a step of a thread that has locked that bucket, the self-removal of a
\* timed-out or interrupted waiter whose block a REQUEUE moved to another
\* bucket included.
C36_ListUnderLock ==
    [][\A b \in Buckets :
          wait_list'[b] # wait_list[b] =>
             \E t \in Holders(b) : pc'[t] # pc[t]]_vars

\* thread u is inside a WAIT call
InWait(u) == op[u] = "WAIT" /\ pc[u] \notin {"idle", "done"}

\* C37: in every state in which no bucket lock is held, each queued wait block
\* is linked exactly once, in the list of the bucket with index (block address
\* mod 256) and in no other, and belongs to a thread that is inside a WAIT call.
C37_QueuedBlocks ==
    (\A b \in Buckets : spin_lock[b] = 0 /\ Holders(b) = {}) =>
        \A u \in Threads :
            IsLinked(wait_list, u) =>
                /\ Occurrences(wait_list[futex_hash(blk_addr[u])], u) = 1
                /\ \A c \in Buckets \ {futex_hash(blk_addr[u])} :
                      ~InList(wait_list[c], u)
                /\ InWait(u)

(* ====================================================================== *)
(*              bind on a UNIX-family socket: file references             *)
(* ====================================================================== *)
L_EPERM == 1

\* the reference counts of the socket file ("f") and of the rendezvous file
\* ("w"; 0: not opened), and how often each was passed to vfs_release
BindRefs(n) == [ref |-> [f |-> n, w |-> 0], rel |-> [f |-> 0, w |-> 0],
                opened |-> FALSE]

\* vfs_get: one more reference to the socket file
vfs_get(st) == [st EXCEPT !.ref.f = @ + 1]

\* vfs_release(x): one reference less
vfs_release(st, x) == [st EXCEPT !.ref[x] = @ - 1, !.rel[x] = @ + 1]

\* a successful vfs_openat(..., &winfile): the caller owns one reference
vfs_openat(st) == [st EXCEPT !.ref.w = 1, !.opened = TRUE]

\* socket.c:654-733 socket_bind on a socket whose af is LINUX_AF_UNIX
socket_bind(c, st) ==
    IF c.short THEN [r |-> -L_EINVAL, st |-> st]
    ELSE IF ~c.family_ok THEN [r |-> -L_EAFNOSUPPORT, st |-> st]
    ELSE IF c.abstract THEN [r |-> -L_EINVAL, st |-> st]
    ELSE IF c.open_r < 0 THEN [r |-> c.open_r, st |-> st]
    ELSE IF ~c.is_winfile
         THEN [r |-> -L_EPERM, st |-> vfs_release(vfs_openat(st), "f")]
    ELSE IF c.bind_err # 0
         THEN [r |-> translate_socket_error(c.bind_err), st |-> vfs_openat(st)]
    ELSE [r |-> 0, st |-> vfs_release(vfs_openat(st), "w")]

\* socket.c:1227-1245 sys_bind
sys_bind(c) ==
    IF ~c.readable THEN [ret |-> -L_EFAULT, st |-> BindRefs(c.ref)]
    ELSE IF ~c.fd_ok THEN [ret |-> -L_EBADF, st |-> BindRefs(c.ref)]
    ELSE LET b == socket_bind(c, vfs_get(BindRefs(c.ref)))
         IN  [ret |-> b.r, st |-> vfs_release(b.st, "f")]

\* the bind syscalls: the sockaddr is readable or not, sockfd is the socket or
\* no open file, addrlen covers no more than sa_family, sa_family is AF_UNIX or
\* not, sun_path starts with a zero byte, vfs_openat succeeds or finds the path
\* existing, the file is a WinFS file or not, the host bind succeeds or finds
\* the address in use; the socket file has one or two references
BindCalls ==
    {[fn |-> "bind", readable |-> rd, fd_ok |-> fd, short |-> sh, family_ok |-> fa,
      abstract |-> ab, open_r |-> o, is_winfile |-> wf, bind_err |-> be, ref |-> n] :
        rd \in BOOLEAN, fd \in BOOLEAN, sh \in BOOLEAN, fa \in BOOLEAN,
        ab \in BOOLEAN, o \in {0, -L_EEXIST}, wf \in BOOLEAN,
        be \in {0, WSAEADDRINUSE}, n \in {1, 2}}

BindInit ==
    /\ CallInitCommon
    /\ sc_call \in BindCalls

BindCall ==
    /\ sc_call.fn = "bind"
    /\ sc_out = {}
    /\ sc_out' = {sys_bind(sc_call)}
    /\ CallUnchanged

BindSpec == BindInit /\ [][BindCall]_vars

\* C38: reference balance of bind. On every exit path of the bind syscall on a
\* UNIX-family socket the socket file's reference count equals its value before
\* the syscall, and a rendezvous file that bind opened has been released
\* exactly once.
C38_BindReferences ==
    \A o \in sc_out :
        sc_call.fn = "bind" =>
            /\ o.st.ref.f = sc_call.ref
            /\ o.st.opened => (o.st.rel.w = 1 /\ o.st.ref.w = 0)

(* ====================================================================== *)
(*                 accept4: the peer address copied out                   *)
(* ====================================================================== *)
\* sizeof(addr_un->sun_family)
SIZEOF_SUN_FAMILY == 2

\* socket.c:875-889: what a successful socket_accept4 stores through addr and
\* addrlen. af is shared->af of the listener, peer the address and length the
\* host accept returned, addrlen the caller's *addrlen. The result: the
\* address in addr_storage, the number of bytes copied to addr and the value of
\* *addrlen afterwards.
socket_accept4_addr(af, peer, has_addr, has_addrlen, addrlen) ==
    IF has_addr /\ has_addrlen
    THEN IF af = "AF_UNIX"
         THEN [sa |-> ZeroSockaddr, copylen |-> 0, addrlen |-> SIZEOF_SUN_FAMILY]
         ELSE [sa |-> translate_socket_addr_to_linux(peer.sa),
               copylen |-> peer.len, addrlen |-> peer.len]
    ELSE [sa |-> ZeroSockaddr, copylen |-> 0, addrlen |-> addrlen]

\* the peers the host accept reports on a listener of family af (a UNIX-family
\* listener is an IPv4 loopback socket)
HostPeers(af) == {h \in HostNames(af) : h.err = 0}

\* the caller passes addr and addrlen or leaves them NULL; *addrlen is 0, less
\* than, equal to or more than the size of the peer address
Accept4Calls ==
    {[fn |-> "accept4", af |-> af, peer |-> p, has_addr |-> a, has_addrlen |-> l,
      addrlen |-> n] :
        af \in AFs, p \in UNION {HostPeers(f) : f \in AFs}, a \in BOOLEAN,
        l \in BOOLEAN,
        n \in {0, SIZEOF_SUN_FAMILY, SIZEOF_SOCKADDR_IN, SIZEOF_SOCKADDR_IN6,
               SIZEOF_SOCKADDR_STORAGE}}

Accept4AddrInit ==
    /\ CallInitCommon
    /\ sc_call \in {c \in Accept4Calls : c.peer \in HostPeers(c.af)}

Accept4AddrCall ==
    /\ sc_call.fn = "accept4"
    /\ sc_out = {}
    /\ sc_out' = {socket_accept4_addr(sc_call.af, sc_call.peer, sc_call.has_addr,
                                      sc_call.has_addrlen, sc_call.addrlen)}
    /\ CallUnchanged

Accept4AddrSpec == Accept4AddrInit /\ [][Accept4AddrCall]_vars

\* C39: accept and accept4 write at most min(the caller's *addrlen, the length
\* of the peer address) bytes into the caller's addr buffer, for INET and INET6
\* peers and every caller-supplied *addrlen.
C39_AcceptCopyLength ==
    \A o \in sc_out :
        sc_call.fn = "accept4" =>
            o.copylen <= Min(sc_call.addrlen, sc_call.peer.len)

(* ====================================================================== *)
(*               recvfrom: the source address copied out                  *)
(* ====================================================================== *)
\* how the loop of socket_recvfrom_unsafe ends: the host receive succeeded,
\* socket_wait_event returned -L_EWOULDBLOCK or -L_EINTR, or the host receive
\* failed with an error other than WSAEWOULDBLOCK
RecvOutcomes ==
    {[kind |-> "ok", err |-> 0], [kind |-> "wouldblock", err |-> 0],
     [kind |-> "intr", err |-> 0], [kind |-> "host", err |-> WSAECONNRESET],
     [kind |-> "host", err |-> WSAEINVAL]}

\* what addr_storage, a local that is not initialised, holds when the host has
\* stored no address in it
StackSockaddrs ==
    {ZeroSockaddr, [family |-> "AF_INET", addr |-> 1, port |-> 2]}

\* socket.c:371-395 socket_recvfrom_unsafe: the return value and what is stored
\* through src_addr and addrlen. out is how the loop ended, peer the address
\* and length a successful host recvfrom stored, stack the content of the
\* uninitialised addr_storage, addrlen the caller's *addrlen.
socket_recvfrom_unsafe(out, peer, stack, has_addrlen, addrlen) ==
    IF out.kind = "host"
    THEN [r |-> translate_socket_error(out.err), stored |-> FALSE,
          sa |-> ZeroSockaddr, copylen |-> 0, addrlen |-> addrlen]
    ELSE LET r == IF out.kind = "ok" THEN 1
                  ELSE IF out.kind = "intr" THEN -L_EINTR ELSE -L_EWOULDBLOCK
             storage == IF out.kind = "ok" THEN peer.sa ELSE stack
             len == IF out.kind = "ok" THEN peer.len ELSE SIZEOF_SOCKADDR_STORAGE
         IN  IF has_addrlen
             THEN [r |-> r, stored |-> TRUE,
                   sa |-> translate_socket_addr_to_linux(storage),
                   copylen |-> Min(addrlen, len), addrlen |-> len]
             ELSE [r |-> r, stored |-> FALSE, sa |-> ZeroSockaddr, copylen |-> 0,
                   addrlen |-> addrlen]

RecvfromCalls ==
    {[fn |-> "recvfrom", out |-> o, peer |-> p, has_addrlen |-> l, addrlen |-> n] :
        o \in RecvOutcomes, p \in HostPeers("AF_INET") \cup HostPeers("AF_INET6"),
        l \in BOOLEAN,
        n \in {0, SIZEOF_SOCKADDR_IN, SIZEOF_SOCKADDR_IN6, SIZEOF_SOCKADDR_STORAGE}}

RecvfromInit ==
    /\ CallInitCommon
    /\ sc_call \in RecvfromCalls

RecvfromCall ==
    /\ sc_call.fn = "recvfrom"
    /\ sc_out = {}
    /\ \E stack \in StackSockaddrs :
          sc_out' = {socket_recvfrom_unsafe(sc_call.out, sc_call.peer, stack,
                                            sc_call.has_addrlen, sc_call.addrlen)}
    /\ CallUnchanged

RecvfromSpec == RecvfromInit /\ [][RecvfromCall]_vars

\* C40: when recvfrom returns an error because no data was received
\* (EWOULDBLOCK from a non-blocking wait, EINTR from an interrupted wait, or a
\* translated host error), the caller's src_addr buffer and *addrlen are left
\* unchanged.
C40_RecvfromErrorFrame ==
    \A o \in sc_out :
        (sc_call.fn = "recvfrom" /\ o.r < 0) =>
            /\ ~o.stored
            /\ o.copylen = 0
            /\ o.addrlen = sc_call.addrlen

====
